---- MODULE Spec2Model ----
(***************************************************************************)
(* Model of the wallet P&L engine (src/src/services/pnlCalculator.ts).     *)
(*                                                                         *)
(* Numbers.  A JavaScript number is modelled as an exact fraction          *)
(* [n |-> numerator, d |-> denominator]; d = 0 encodes the non-finite      *)
(* values: 0/0 is NaN, 1/0 is +Infinity, -1/0 is -Infinity.  Rounding of   *)
(* IEEE doubles and the sign of zero are not modelled.                     *)
(*                                                                         *)
(* Objects.  Transactions and lots are mutable objects in the code.  A     *)
(* transaction object is named by its index in the input array             *)
(* `transactions`; a lot object by its index in its key's lot array.       *)
(***************************************************************************)
EXTENDS Integers, Sequences, FiniteSets

\* ------------------------------------------------------------------------
\* Bounds of the explored inputs
\* ------------------------------------------------------------------------
MaxTxs == 3
MaxTime == 2
MaxQty == 2

\* ------------------------------------------------------------------------
\* Numbers
\* ------------------------------------------------------------------------
AbsInt(i) == IF i < 0 THEN -i ELSE i

SignInt(i) == IF i < 0 THEN -1 ELSE IF i > 0 THEN 1 ELSE 0

RECURSIVE GCD(_, _)
GCD(a, b) == IF b = 0 THEN a ELSE GCD(b, a % b)

Norm(n, d) ==
    IF d = 0 THEN [n |-> SignInt(n), d |-> 0]
    ELSE LET s == IF d < 0 THEN -1 ELSE 1
             g == GCD(AbsInt(n), AbsInt(d))
         IN  [n |-> (s * n) \div g, d |-> (s * d) \div g]

Num(i) == [n |-> i, d |-> 1]
Zero == Num(0)
NaN == [n |-> 0, d |-> 0]
IsNaN(a) == a.d = 0 /\ a.n = 0
IsFinite(a) == a.d # 0

Add(a, b) ==
    IF a.d = 0 /\ b.d = 0
    THEN (IF a.n = b.n THEN a ELSE NaN)
    ELSE Norm(a.n * b.d + b.n * a.d, a.d * b.d)

Neg(a) == [n |-> -a.n, d |-> a.d]
Sub(a, b) == Add(a, Neg(b))
Mul(a, b) == Norm(a.n * b.n, a.d * b.d)
Recip(a) == IF a.n < 0 THEN [n |-> -a.d, d |-> -a.n] ELSE [n |-> a.d, d |-> a.n]
Div(a, b) == Mul(a, Recip(b))
Abs(a) == [n |-> AbsInt(a.n), d |-> a.d]

\* a < b as JavaScript evaluates it: false when either side is NaN
Lt(a, b) ==
    IF IsNaN(a) \/ IsNaN(b) THEN FALSE
    ELSE IF a.d = 0 /\ b.d = 0 THEN a.n < b.n
    ELSE a.n * b.d < b.n * a.d

Gt(a, b) == Lt(b, a)
Ge(a, b) == ~IsNaN(a) /\ ~IsNaN(b) /\ ~Lt(a, b)

\* Math.min
MathMin(a, b) == IF IsNaN(a) \/ IsNaN(b) THEN NaN ELSE IF Lt(b, a) THEN b ELSE a

\* x || 0 on a number: 0 and NaN are falsy
OrZero(a) == IF IsNaN(a) THEN Zero ELSE a

RECURSIVE SumSeq(_, _)
\* array.reduce((sum, x) => sum + f(x), 0) over a sequence of numbers
SumSeq(s, acc) == IF s = <<>> THEN acc ELSE SumSeq(Tail(s), Add(acc, Head(s)))

\* ------------------------------------------------------------------------
\* Strings and token keys
\* ------------------------------------------------------------------------
Undefined == [undefined |-> TRUE]

ToLowerCase(s) ==
    CASE s = "ETH" -> "eth"
      [] s = "USDC" -> "usdc"
      [] s = "MATIC" -> "matic"
      [] s = "0xA" -> "0xa"
      [] s = "0xB" -> "0xb"
      [] s = "0xC" -> "0xc"
      [] s = "0xWallet" -> "0xwallet"
      [] s = "0xWALLET" -> "0xwallet"
      [] s = "0xOther" -> "0xother"
      [] s = "0x833589fCD6eDb6E08f4c7C32D4f71b54bdA02913" ->
             "0x833589fcd6edb6e08f4c7c32d4f71b54bda02913"
      [] OTHER -> s

\* String.prototype.toUpperCase on the strings that occur
ToUpperCase(s) ==
    CASE s = "eth" -> "ETH"
      [] s = "usdc" -> "USDC"
      [] s = "matic" -> "MATIC"
      [] OTHER -> s

\* getTokenKey keyed by the symbol alone
getTokenKeyBySymbol(chain, symbol, address) == <<ToLowerCase(symbol)>>

\* `${chain}:${symbol}:${address}`.toLowerCase(); the three parts of the
\* joined string are kept as a tuple
getTokenKey(chain, symbol, address) ==
    <<ToLowerCase(chain), ToLowerCase(symbol), ToLowerCase(address)>>

\* ------------------------------------------------------------------------
\* State
\* ------------------------------------------------------------------------
VARIABLES
    method,         \* this.method
    given,          \* the input array as it was when calculate was called
    transactions,   \* the input array: the transaction objects as they are now
    currentPrices,  \* the input price map: symbol -> number
    pc,             \* position inside calculate
    sortedTxs,      \* sortedTxs: references (indices) into transactions
    idx,            \* number of transactions of sortedTxs already replayed
    positions,      \* this.positions: key -> array of lots
    tokenPnL,       \* this.tokenPnL: entries [key, val] in insertion order
    lastDisposal,   \* locals of the last removePosition call (observation only)
    result,         \* the PnLResult returned, or Undefined
    clock,          \* what Date.now() returns
    earlier,        \* the calls this instance has already returned from
    request,        \* arguments of the running calculatePnL call, and who calls
    apiKey,         \* config.etherscanApiKey is set
    transactionCache, \* cacheService.transactionCache: chain -> transactions
    priceCache,     \* cacheService.priceCache: key -> number
    svcPc,          \* position inside WalletService.calculatePnL
    chainIdx,       \* chains of the loop of fetchTransactions already passed
    allTransactions, \* allTransactions of fetchTransactions, then the enriched list
    requests,       \* the retryRequest calls under way: name -> its state
    fetcherCalls,   \* chains blockchainFetcher.fetchTransactions was called for
    lookups,        \* locals of enrichWithPrices
    priceMap,       \* priceMap of getCurrentPrices
    output,         \* what the call returned, or Undefined
    runs,           \* calculatePnL calls finished before this one
    upstream        \* what the explorer and price APIs hold for this wallet

calculatorVars == <<method, given, transactions, currentPrices, pc, sortedTxs, idx,
                    positions, tokenPnL, lastDisposal, result, clock, earlier>>

serviceVars == <<request, apiKey, transactionCache, priceCache, svcPc, chainIdx,
                 allTransactions, requests, fetcherCalls, lookups, priceMap, output, runs,
                 upstream>>

vars == <<calculatorVars, serviceVars>>

\* no WalletService call is under way and none was made: the state of the
\* services while a PnLCalculator is used on its own
ServiceOff ==
    /\ request = Undefined
    /\ apiKey = FALSE
    /\ transactionCache = <<>>
    /\ priceCache = <<>>
    /\ svcPc = "Off"
    /\ chainIdx = 0
    /\ allTransactions = <<>>
    /\ requests = <<>>
    /\ fetcherCalls = <<>>
    /\ lookups = Undefined
    /\ priceMap = <<>>
    /\ output = Undefined
    /\ runs = <<>>
    /\ upstream = Undefined

Methods == {"fifo", "lifo", "avg"}
Acquisitions == {"buy", "transfer_in"}
Disposals == {"sell", "transfer_out"}
TxTypes == Acquisitions \cup Disposals

\* ------------------------------------------------------------------------
\* Array helpers
\* ------------------------------------------------------------------------
RECURSIVE InsertSorted(_, _, _)
\* insert x behind every element whose sort key is not greater (stable)
InsertSorted(s, x, key) ==
    IF s = <<>> THEN <<x>>
    ELSE IF key[x] < key[Head(s)] THEN <<x>> \o s
    ELSE <<Head(s)>> \o InsertSorted(Tail(s), x, key)

RECURSIVE StableSort(_, _)
\* Array.prototype.sort with comparator (a, b) => key[a] - key[b]: the sort
\* is stable, elements with equal keys keep their order
StableSort(s, key) ==
    IF s = <<>> THEN <<>>
    ELSE InsertSorted(StableSort(SubSeq(s, 1, Len(s) - 1), key), s[Len(s)], key)

\* array.filter
FilterSeq(s, Keep(_)) == SelectSeq(s, Keep)

\* array.map
MapSeq(s, F(_)) == [i \in 1..Len(s) |-> F(s[i])]

\* ------------------------------------------------------------------------
\* PnLCalculator: pure parts
\* ------------------------------------------------------------------------
\* this.positions.get(key) || []
PositionsOf(pos, key) == IF key \in DOMAIN pos THEN pos[key] ELSE <<>>

\* this.positions.set(key, lots)
SetPositions(pos, key, lots) ==
    [k \in DOMAIN pos \cup {key} |-> IF k = key THEN lots ELSE pos[k]]

\* SortTransactions without the sort: the input order is replayed
SortTransactionsUnsorted(txs) == [i \in 1..Len(txs) |-> i]

\* SortTransactions losing the last element of the sorted array
SortTransactionsDropsLast(txs) ==
    LET sorted == StableSort([i \in 1..Len(txs) |-> i],
                             [i \in 1..Len(txs) |-> txs[i].timestamp])
    IN  SubSeq(sorted, 1, Len(sorted) - 1)

\* SortTransactions with an unstable sort: equal timestamps come out in the
\* reverse of their input order
SortTransactionsTiesReversed(txs) ==
    StableSort([i \in 1..Len(txs) |-> Len(txs) + 1 - i],
               [i \in 1..Len(txs) |-> txs[i].timestamp])

\* sortedTxs = [...transactions].sort((a, b) => a.timestamp - b.timestamp)
SortTransactions(txs) ==
    StableSort([i \in 1..Len(txs) |-> i], [i \in 1..Len(txs) |-> txs[i].timestamp])

\* orderPositions with the two comparators exchanged
orderPositionsReversed(m, lots) ==
    LET refs == [i \in 1..Len(lots) |-> i]
        asc == [i \in 1..Len(lots) |-> lots[i].timestamp]
        desc == [i \in 1..Len(lots) |-> -lots[i].timestamp]
        Same(r) == [ref |-> r, quantity |-> lots[r].quantity,
                    price_usd |-> lots[r].price_usd]
        avgPrice == Div(SumSeq([i \in 1..Len(lots) |->
                                   Mul(lots[i].quantity, lots[i].price_usd)], Zero),
                        SumSeq([i \in 1..Len(lots) |-> lots[i].quantity], Zero))
        Copy(r) == [ref |-> 0, quantity |-> lots[r].quantity, price_usd |-> avgPrice]
    IN  CASE m = "fifo" -> MapSeq(StableSort(refs, desc), Same)
          [] m = "lifo" -> MapSeq(StableSort(refs, asc), Same)
          [] m = "avg"  -> MapSeq(refs, Copy)
          [] OTHER      -> MapSeq(refs, Same)

\* orderPositions without the sorts: fifo and lifo offer the lots in array
\* order
orderPositionsUnsorted(m, lots) ==
    LET refs == [i \in 1..Len(lots) |-> i]
        Same(r) == [ref |-> r, quantity |-> lots[r].quantity,
                    price_usd |-> lots[r].price_usd]
        avgPrice == Div(SumSeq([i \in 1..Len(lots) |->
                                   Mul(lots[i].quantity, lots[i].price_usd)], Zero),
                        SumSeq([i \in 1..Len(lots) |-> lots[i].quantity], Zero))
        Copy(r) == [ref |-> 0, quantity |-> lots[r].quantity, price_usd |-> avgPrice]
    IN  CASE m = "avg"  -> MapSeq(refs, Copy)
          [] OTHER      -> MapSeq(refs, Same)

\* orderPositions with lifo as the reverse of the fifo order
\* ([...positions].sort(ascending).reverse()): lots of one timestamp come
\* latest first
orderPositionsLifoByReverse(m, lots) ==
    LET refs == [i \in 1..Len(lots) |-> i]
        asc == [i \in 1..Len(lots) |-> lots[i].timestamp]
        sorted == StableSort(refs, asc)
        reversed == [i \in 1..Len(lots) |-> sorted[Len(lots) + 1 - i]]
        Same(r) == [ref |-> r, quantity |-> lots[r].quantity,
                    price_usd |-> lots[r].price_usd]
        avgPrice == Div(SumSeq([i \in 1..Len(lots) |->
                                   Mul(lots[i].quantity, lots[i].price_usd)], Zero),
                        SumSeq([i \in 1..Len(lots) |-> lots[i].quantity], Zero))
        Copy(r) == [ref |-> 0, quantity |-> lots[r].quantity, price_usd |-> avgPrice]
    IN  CASE m = "fifo" -> MapSeq(sorted, Same)
          [] m = "lifo" -> MapSeq(reversed, Same)
          [] m = "avg"  -> MapSeq(refs, Copy)
          [] OTHER      -> MapSeq(refs, Same)

\* orderPositions.  The result is an array of objects; `ref` is the index of
\* the lot object of `lots` that the element IS (fifo, lifo, default: the
\* sorted copy of the array holds the same objects), or 0 when the element
\* is a fresh object (avg: positions.map builds copies).
orderPositions(m, lots) ==
    LET refs == [i \in 1..Len(lots) |-> i]
        asc == [i \in 1..Len(lots) |-> lots[i].timestamp]
        desc == [i \in 1..Len(lots) |-> -lots[i].timestamp]
        Same(r) == [ref |-> r, quantity |-> lots[r].quantity,
                    price_usd |-> lots[r].price_usd]
        totalQuantity == SumSeq([i \in 1..Len(lots) |-> lots[i].quantity], Zero)
        totalValue == SumSeq([i \in 1..Len(lots) |->
                                Mul(lots[i].quantity, lots[i].price_usd)], Zero)
        avgPrice == Div(totalValue, totalQuantity)
        Copy(r) == [ref |-> 0, quantity |-> lots[r].quantity, price_usd |-> avgPrice]
    IN  CASE m = "fifo" -> MapSeq(StableSort(refs, asc), Same)
          [] m = "lifo" -> MapSeq(StableSort(refs, desc), Same)
          [] m = "avg"  -> MapSeq(refs, Copy)
          [] OTHER      -> MapSeq(refs, Same)

RECURSIVE ConsumeLoopUncapped(_, _, _, _)
\* the loop of removePosition without Math.min: a lot gives the whole
\* quantity still wanted
ConsumeLoopUncapped(ordered, i, remainingQuantity, totalCostBasis) ==
    IF ~(i <= Len(ordered) /\ Gt(remainingQuantity, Zero))
    THEN [ordered |-> ordered, remainingQuantity |-> remainingQuantity,
          totalCostBasis |-> totalCostBasis]
    ELSE LET position == ordered[i]
             quantityToSell == remainingQuantity
         IN  ConsumeLoopUncapped(
                 [ordered EXCEPT ![i].quantity = Sub(@, quantityToSell)],
                 i + 1,
                 Sub(remainingQuantity, quantityToSell),
                 Add(totalCostBasis, Mul(quantityToSell, position.price_usd)))

RECURSIVE ConsumeLoop(_, _, _, _)
\* the for loop of removePosition, from index i on
ConsumeLoop(ordered, i, remainingQuantity, totalCostBasis) ==
    IF ~(i <= Len(ordered) /\ Gt(remainingQuantity, Zero))
    THEN [ordered |-> ordered, remainingQuantity |-> remainingQuantity,
          totalCostBasis |-> totalCostBasis]
    ELSE LET position == ordered[i]
             quantityToSell == MathMin(position.quantity, remainingQuantity)
         IN  ConsumeLoop([ordered EXCEPT ![i].quantity = Sub(@, quantityToSell)],
                         i + 1,
                         Sub(remainingQuantity, quantityToSell),
                         Add(totalCostBasis, Mul(quantityToSell, position.price_usd)))

\* the lot array of the key after the loop has written through the shared
\* objects, before the filter
WriteBack(lots, ordered) ==
    [j \in 1..Len(lots) |->
        IF \E i \in 1..Len(ordered) : ordered[i].ref = j
        THEN [lots[j] EXCEPT !.quantity =
                 ordered[CHOOSE i \in 1..Len(ordered) : ordered[i].ref = j].quantity]
        ELSE lots[j]]

\* positions.filter((p) => p.quantity > 0)
OpenLots(lots) == LET Open(p) == Gt(p.quantity, Zero) IN FilterSeq(lots, Open)

\* index of the key's entry in this.tokenPnL, 0 when absent
EntryIndex(tp, key) ==
    IF \E i \in 1..Len(tp) : tp[i].key = key
    THEN CHOOSE i \in 1..Len(tp) : tp[i].key = key
    ELSE 0

NewTokenPnL(chain, symbol, address) ==
    [token_symbol |-> symbol, token_address |-> address, chain |-> chain,
     quantity_held |-> Zero, average_buy_price_usd |-> Zero,
     current_price_usd |-> Zero, realized_pnl_usd |-> Zero,
     unrealized_pnl_usd |-> Zero, total_pnl_usd |-> Zero, pnl_percentage |-> Zero]

\* updateTokenPnL taking the plain mean of the unit costs as average price
updateTokenPnLUnweighted(tp, pos, key, chain, symbol, address, realizedPnL) ==
    LET at == EntryIndex(tp, key)
        existing == IF at # 0 THEN tp[at].val ELSE NewTokenPnL(chain, symbol, address)
        lots == PositionsOf(pos, key)
        totalQuantity == SumSeq([i \in 1..Len(lots) |-> lots[i].quantity], Zero)
        totalValue == SumSeq([i \in 1..Len(lots) |-> lots[i].price_usd], Zero)
        updated == [existing EXCEPT
                      !.realized_pnl_usd = Add(@, realizedPnL),
                      !.quantity_held = totalQuantity,
                      !.average_buy_price_usd =
                          IF Gt(totalQuantity, Zero) THEN Div(totalValue, Num(Len(lots)))
                          ELSE Zero]
    IN  IF at # 0 THEN [tp EXCEPT ![at].val = updated]
        ELSE Append(tp, [key |-> key, val |-> updated])

\* updateTokenPnL: pos is this.positions as already updated by the caller
updateTokenPnL(tp, pos, key, chain, symbol, address, realizedPnL) ==
    LET at == EntryIndex(tp, key)
        existing == IF at # 0 THEN tp[at].val ELSE NewTokenPnL(chain, symbol, address)
        lots == PositionsOf(pos, key)
        totalQuantity == SumSeq([i \in 1..Len(lots) |-> lots[i].quantity], Zero)
        totalValue == SumSeq([i \in 1..Len(lots) |->
                                Mul(lots[i].quantity, lots[i].price_usd)], Zero)
        updated == [existing EXCEPT
                      !.realized_pnl_usd = Add(@, realizedPnL),
                      !.quantity_held = totalQuantity,
                      !.average_buy_price_usd =
                          IF Gt(totalQuantity, Zero) THEN Div(totalValue, totalQuantity)
                          ELSE Zero]
    IN  IF at # 0 THEN [tp EXCEPT ![at].val = updated]
        ELSE Append(tp, [key |-> key, val |-> updated])

\* addPosition as it was before the fix the repository documents: a
\* transfer_in gets a cost basis of zero
addPositionTransferInFree(pos, tp, key, tx) ==
    LET lots == Append(PositionsOf(pos, key),
                       [quantity |-> tx.quantity,
                        price_usd |-> IF tx.type = "transfer_in" THEN Zero
                                      ELSE tx.price_usd,
                        timestamp |-> tx.timestamp, tx_hash |-> tx.tx_hash])
        pos2 == SetPositions(pos, key, lots)
    IN  [positions |-> pos2,
         tokenPnL |-> updateTokenPnL(tp, pos2, key, tx.chain, tx.token_symbol,
                                     tx.token_address, Zero)]

\* addPosition: the new lot goes to the end of the key's array
addPosition(pos, tp, key, tx) ==
    LET lots == Append(PositionsOf(pos, key),
                       [quantity |-> tx.quantity, price_usd |-> tx.price_usd,
                        timestamp |-> tx.timestamp, tx_hash |-> tx.tx_hash])
        pos2 == SetPositions(pos, key, lots)
    IN  [positions |-> pos2,
         tokenPnL |-> updateTokenPnL(tp, pos2, key, tx.chain, tx.token_symbol,
                                     tx.token_address, Zero)]

\* removePosition; `before` and `after` are orderedPositions before and
\* after the loop
removePosition(m, pos, tp, key, tx) ==
    LET lots == PositionsOf(pos, key)
        orderedPositions == orderPositions(m, lots)
        loop == ConsumeLoop(orderedPositions, 1, tx.quantity, Zero)
        pos2 == SetPositions(pos, key, OpenLots(WriteBack(lots, loop.ordered)))
        saleProceeds == Mul(tx.quantity, tx.price_usd)
        realizedPnL == Sub(saleProceeds, loop.totalCostBasis)
    IN  [positions |-> pos2,
         tokenPnL |-> updateTokenPnL(tp, pos2, key, tx.chain, tx.token_symbol,
                                     tx.token_address, realizedPnL),
         realizedPnL |-> realizedPnL,
         totalCostBasis |-> loop.totalCostBasis,
         lotsBefore |-> lots,
         before |-> orderedPositions,
         after |-> loop.ordered]

\* calculateUnrealizedPnL valuing the holding without taking off its cost
UnrealizedOfValueOnly(pnl, prices) ==
    LET currentPrice == IF pnl.token_symbol \in DOMAIN prices
                        THEN OrZero(prices[pnl.token_symbol]) ELSE Zero
        unrealized == IF Gt(pnl.quantity_held, Zero)
                      THEN Mul(pnl.quantity_held, currentPrice)
                      ELSE pnl.unrealized_pnl_usd
        total == Add(pnl.realized_pnl_usd, unrealized)
        totalCostBasis == Add(Mul(pnl.quantity_held, pnl.average_buy_price_usd),
                              Abs(pnl.realized_pnl_usd))
    IN  [pnl EXCEPT !.current_price_usd = currentPrice,
                    !.unrealized_pnl_usd = unrealized,
                    !.total_pnl_usd = total,
                    !.pnl_percentage =
                        IF Gt(totalCostBasis, Zero)
                        THEN Mul(Div(total, totalCostBasis), Num(100)) ELSE Zero]

\* calculateUnrealizedPnL, for one entry of this.tokenPnL
UnrealizedOf(pnl, prices) ==
    LET currentPrice == IF pnl.token_symbol \in DOMAIN prices
                        THEN OrZero(prices[pnl.token_symbol]) ELSE Zero
        unrealized == IF Gt(pnl.quantity_held, Zero)
                      THEN Sub(Mul(pnl.quantity_held, currentPrice),
                               Mul(pnl.quantity_held, pnl.average_buy_price_usd))
                      ELSE pnl.unrealized_pnl_usd
        total == Add(pnl.realized_pnl_usd, unrealized)
        totalCostBasis == Add(Mul(pnl.quantity_held, pnl.average_buy_price_usd),
                              Abs(pnl.realized_pnl_usd))
    IN  [pnl EXCEPT !.current_price_usd = currentPrice,
                    !.unrealized_pnl_usd = unrealized,
                    !.total_pnl_usd = total,
                    !.pnl_percentage =
                        IF Gt(totalCostBasis, Zero)
                        THEN Mul(Div(total, totalCostBasis), Num(100)) ELSE Zero]

calculateUnrealizedPnL(tp, prices) ==
    [i \in 1..Len(tp) |-> [tp[i] EXCEPT !.val = UnrealizedOf(@, prices)]]

RECURSIVE ChainFoldLastWins(_, _)
\* first loop of aggregateByChain starting every token from a new entry: the
\* chain gets the figures of its last token
ChainFoldLastWins(tokens, chainMap) ==
    IF tokens = <<>> THEN chainMap
    ELSE LET token == Head(tokens)
             at == IF \E i \in 1..Len(chainMap) : chainMap[i].chain = token.chain
                   THEN CHOOSE i \in 1..Len(chainMap) : chainMap[i].chain = token.chain
                   ELSE 0
             updated == [chain |-> token.chain,
                         realized_pnl_usd |-> token.realized_pnl_usd,
                         unrealized_pnl_usd |-> token.unrealized_pnl_usd,
                         total_pnl_usd |-> token.total_pnl_usd,
                         pnl_percentage |-> Zero]
         IN  ChainFoldLastWins(Tail(tokens),
                               IF at # 0 THEN [chainMap EXCEPT ![at] = updated]
                               ELSE Append(chainMap, updated))

RECURSIVE ChainFold(_, _)
\* first loop of aggregateByChain: chainMap in insertion order
ChainFold(tokens, chainMap) ==
    IF tokens = <<>> THEN chainMap
    ELSE LET token == Head(tokens)
             at == IF \E i \in 1..Len(chainMap) : chainMap[i].chain = token.chain
                   THEN CHOOSE i \in 1..Len(chainMap) : chainMap[i].chain = token.chain
                   ELSE 0
             existing == IF at # 0 THEN chainMap[at]
                         ELSE [chain |-> token.chain, realized_pnl_usd |-> Zero,
                               unrealized_pnl_usd |-> Zero, total_pnl_usd |-> Zero,
                               pnl_percentage |-> Zero]
             updated == [existing EXCEPT
                           !.realized_pnl_usd = Add(@, token.realized_pnl_usd),
                           !.unrealized_pnl_usd = Add(@, token.unrealized_pnl_usd),
                           !.total_pnl_usd = Add(@, token.total_pnl_usd)]
         IN  ChainFold(Tail(tokens),
                       IF at # 0 THEN [chainMap EXCEPT ![at] = updated]
                       ELSE Append(chainMap, updated))

aggregateByChain(tokens) ==
    LET Percentage(chain) ==
            LET totalInvested == Abs(Sub(chain.total_pnl_usd, chain.realized_pnl_usd))
            IN  [chain EXCEPT !.pnl_percentage =
                    IF Gt(totalInvested, Zero)
                    THEN Mul(Div(chain.total_pnl_usd, totalInvested), Num(100))
                    ELSE Zero]
    IN  MapSeq(ChainFold(tokens, <<>>), Percentage)

\* calculateSummary as it was before the fix the repository documents: the
\* total is realized + unrealized
calculateSummaryRealizedPlusUnrealized(tokens) ==
    LET n == Len(tokens)
        total_realized == SumSeq([i \in 1..n |-> tokens[i].realized_pnl_usd], Zero)
        total_unrealized == SumSeq([i \in 1..n |-> tokens[i].unrealized_pnl_usd], Zero)
        current_value == SumSeq([i \in 1..n |->
            Mul(tokens[i].quantity_held, tokens[i].current_price_usd)], Zero)
        remaining_cost_basis == SumSeq([i \in 1..n |->
            Mul(tokens[i].quantity_held, tokens[i].average_buy_price_usd)], Zero)
        initial_investment == Add(remaining_cost_basis, Abs(total_realized))
        total_pnl == Add(Sub(current_value, remaining_cost_basis), total_realized)
    IN  [total_realized_pnl_usd |-> total_realized,
         total_unrealized_pnl_usd |-> total_unrealized,
         total_pnl_usd |-> total_pnl,
         total_pnl_percentage |->
             IF Gt(initial_investment, Zero)
             THEN Mul(Div(total_pnl, initial_investment), Num(100)) ELSE Zero,
         initial_investment_usd |-> initial_investment,
         current_value_usd |-> current_value]

\* calculateSummary taking the magnitude of each token's realized P&L
\* instead of the magnitude of their sum
calculateSummaryAbsPerToken(tokens) ==
    LET n == Len(tokens)
        total_realized == SumSeq([i \in 1..n |-> tokens[i].realized_pnl_usd], Zero)
        total_unrealized == SumSeq([i \in 1..n |-> tokens[i].unrealized_pnl_usd], Zero)
        current_value == SumSeq([i \in 1..n |->
            Mul(tokens[i].quantity_held, tokens[i].current_price_usd)], Zero)
        remaining_cost_basis == SumSeq([i \in 1..n |->
            Mul(tokens[i].quantity_held, tokens[i].average_buy_price_usd)], Zero)
        initial_investment ==
            Add(remaining_cost_basis,
                SumSeq([i \in 1..n |-> Abs(tokens[i].realized_pnl_usd)], Zero))
        total_change == Sub(current_value, initial_investment)
    IN  [total_realized_pnl_usd |-> total_realized,
         total_unrealized_pnl_usd |-> total_unrealized,
         total_pnl_usd |-> total_change,
         total_pnl_percentage |->
             IF Gt(initial_investment, Zero)
             THEN Mul(Div(total_change, initial_investment), Num(100)) ELSE Zero,
         initial_investment_usd |-> initial_investment,
         current_value_usd |-> current_value]

\* calculateSummary without the guard of the percentage
calculateSummaryUnguarded(tokens) ==
    LET n == Len(tokens)
        total_realized == SumSeq([i \in 1..n |-> tokens[i].realized_pnl_usd], Zero)
        total_unrealized == SumSeq([i \in 1..n |-> tokens[i].unrealized_pnl_usd], Zero)
        current_value == SumSeq([i \in 1..n |->
            Mul(tokens[i].quantity_held, tokens[i].current_price_usd)], Zero)
        remaining_cost_basis == SumSeq([i \in 1..n |->
            Mul(tokens[i].quantity_held, tokens[i].average_buy_price_usd)], Zero)
        initial_investment == Add(remaining_cost_basis, Abs(total_realized))
        total_change == Sub(current_value, initial_investment)
    IN  [total_realized_pnl_usd |-> total_realized,
         total_unrealized_pnl_usd |-> total_unrealized,
         total_pnl_usd |-> total_change,
         total_pnl_percentage |-> Mul(Div(total_change, initial_investment), Num(100)),
         initial_investment_usd |-> initial_investment,
         current_value_usd |-> current_value]

calculateSummary(tokens) ==
    LET n == Len(tokens)
        total_realized == SumSeq([i \in 1..n |-> tokens[i].realized_pnl_usd], Zero)
        total_unrealized == SumSeq([i \in 1..n |-> tokens[i].unrealized_pnl_usd], Zero)
        current_value == SumSeq([i \in 1..n |->
            Mul(tokens[i].quantity_held, tokens[i].current_price_usd)], Zero)
        remaining_cost_basis == SumSeq([i \in 1..n |->
            Mul(tokens[i].quantity_held, tokens[i].average_buy_price_usd)], Zero)
        total_sale_proceeds == SumSeq([i \in 1..n |-> tokens[i].realized_pnl_usd], Zero)
        initial_investment ==
            Add(remaining_cost_basis,
                IF Ge(total_sale_proceeds, Zero) THEN total_sale_proceeds
                ELSE Neg(total_sale_proceeds))
        total_change == Sub(current_value, initial_investment)
    IN  [total_realized_pnl_usd |-> total_realized,
         total_unrealized_pnl_usd |-> total_unrealized,
         total_pnl_usd |-> total_change,
         total_pnl_percentage |->
             IF Gt(initial_investment, Zero)
             THEN Mul(Div(total_change, initial_investment), Num(100)) ELSE Zero,
         initial_investment_usd |-> initial_investment,
         current_value_usd |-> current_value]

\* processedTxs keeping the annotation of every disposal
ProcessedTxAllDisposals(tx) ==
    [tx EXCEPT !.realized_pnl_usd =
        IF tx.type = "sell" \/ tx.type = "transfer_out" THEN @ ELSE Undefined]

\* processedTxs: a new record per transaction
ProcessedTx(tx) ==
    [tx EXCEPT !.realized_pnl_usd = IF tx.type = "sell" THEN @ ELSE Undefined]

\* what calculate returns, from the state its replay has reached
BuildResult(txs, sorted, tp) ==
    LET byToken == [i \in 1..Len(tp) |-> tp[i].val]
    IN  [summary |-> calculateSummary(byToken),
         by_chain |-> aggregateByChain(byToken),
         by_token |-> byToken,
         transactions |-> [i \in 1..Len(sorted) |-> ProcessedTx(txs[sorted[i]])]]

RECURSIVE SetOrder(_, _)
\* [...new Set(s)]: the distinct elements of s in order of first occurrence
SetOrder(s, seen) ==
    IF s = <<>> THEN <<>>
    ELSE IF Head(s) \in seen THEN SetOrder(Tail(s), seen)
    ELSE <<Head(s)>> \o SetOrder(Tail(s), seen \cup {Head(s)})

\* the metadata of the returned object; t is Date.now()
Metadata(txs, t) ==
    [last_updated |-> t,
     chains_queried |-> SetOrder([i \in 1..Len(txs) |-> txs[i].chain], {}),
     data_sources |-> <<"etherscan", "defillama", "coingecko">>]

\* the object literal calculate returns
PnLResult(r, metadata) ==
    [summary |-> r.summary, by_chain |-> r.by_chain, by_token |-> r.by_token,
     transactions |-> r.transactions, metadata |-> metadata]

\* ------------------------------------------------------------------------
\* Inputs
\* ------------------------------------------------------------------------
Tx(hash, chain, time, type, symbol, address, quantity, price) ==
    [tx_hash |-> hash, chain |-> chain, timestamp |-> time, type |-> type,
     token_symbol |-> symbol, token_address |-> address,
     quantity |-> quantity, price_usd |-> price, realized_pnl_usd |-> Undefined]

TokA == [chain |-> "ethereum", token_symbol |-> "ETH", token_address |-> "0xA"]
TokB == [chain |-> "polygon", token_symbol |-> "ETH", token_address |-> "0xB"]

TokTx(tok, time, type, quantity, price) ==
    Tx(0, tok.chain, time, type, tok.token_symbol, tok.token_address,
       Num(quantity), Num(price))

\* prices of the explored transactions: lots cost 1 or 3, disposals fetch 2
BuyPrices == {1, 3}
SellPrices == {2}

\* The explored transactions: every buy and sell of TokA with a timestamp in
\* 1..MaxTime and a quantity in 1..MaxQty, a buy and a sell of quantity 0,
\* transfers of TokA and trades of TokB with quantity 1.
TxPool ==
    {TokTx(TokA, t, "buy", q, p) : t \in 1..MaxTime, q \in 1..MaxQty, p \in BuyPrices}
    \cup {TokTx(TokA, t, "sell", q, p) : t \in 1..MaxTime, q \in 1..MaxQty, p \in SellPrices}
    \cup {TokTx(TokA, 1, "buy", 0, 1), TokTx(TokA, 1, "sell", 0, 2)}
    \cup {TokTx(TokA, t, "transfer_in", 1, 1) : t \in 1..MaxTime}
    \cup {TokTx(TokA, t, "transfer_out", 1, 2) : t \in 1..MaxTime}
    \cup {TokTx(TokB, 1, "buy", 1, p) : p \in BuyPrices}
    \cup {TokTx(TokB, 1, "sell", 1, p) : p \in SellPrices}

\* tx_hash of the i-th transaction of an input list is i
WithHashes(txs) == [i \in 1..Len(txs) |-> [txs[i] EXCEPT !.tx_hash = i]]

TxLists == UNION {[1..n -> TxPool] : n \in 0..MaxTxs}

PriceMaps == {<<>>, [s \in {"ETH"} |-> Num(2)]}

\* spec.md section 8, FIFO vs LIFO divergence (README "Cost Basis Methods")
ScenarioDivergence ==
    <<TokTx(TokA, 1, "buy", 2, 1800), TokTx(TokA, 2, "buy", 1, 2000),
      TokTx(TokA, 3, "sell", 1, 2200)>>

\* spec.md section 8, full exit
ScenarioFullExit == <<TokTx(TokA, 1, "buy", 1, 100), TokTx(TokA, 2, "sell", 1, 150)>>

\* spec.md section 8, oversell
ScenarioOversell == <<TokTx(TokA, 1, "buy", 2, 10), TokTx(TokA, 2, "sell", 5, 12)>>

\* a second token on the chain of TokA
TokC == [chain |-> "ethereum", token_symbol |-> "USDC", token_address |-> "0xC"]

\* two tokens of one chain, each bought and partly sold
ScenarioSharedChain ==
    <<TokTx(TokA, 1, "buy", 2, 1), TokTx(TokC, 1, "buy", 4, 1),
      TokTx(TokA, 2, "sell", 1, 2), TokTx(TokC, 2, "sell", 1, 3)>>

Scenarios == {ScenarioDivergence, ScenarioFullExit, ScenarioOversell, ScenarioSharedChain}

\* mockTransactions: timestamps are Date.now() less a number of days, kept
\* here as the number of days (negative: before now); tx_hash is given by
\* WithHashes; total_value_usd is not read by the calculator
mockTransactions ==
    <<Tx(0, "ethereum", -90, "buy", "ETH",
         "0x0000000000000000000000000000000000000000", Num(2), Num(1800)),
      Tx(0, "ethereum", -60, "buy", "ETH",
         "0x0000000000000000000000000000000000000000", Norm(3, 2), Num(2000)),
      Tx(0, "ethereum", -30, "sell", "ETH",
         "0x0000000000000000000000000000000000000000", Num(1), Num(2200)),
      Tx(0, "base", -45, "buy", "USDC",
         "0x833589fCD6eDb6E08f4c7C32D4f71b54bdA02913", Num(5000), Num(1)),
      Tx(0, "arbitrum", -20, "transfer_in", "ETH",
         "0x0000000000000000000000000000000000000000", Norm(1, 2), Num(2100)),
      Tx(0, "polygon", -15, "buy", "MATIC",
         "0x0000000000000000000000000000000000001010", Num(1000), Norm(4, 5)),
      Tx(0, "optimism", -10, "buy", "ETH",
         "0x0000000000000000000000000000000000000000", Norm(4, 5), Num(2150))>>

mockCurrentPrices ==
    [s \in {"ETH", "USDC", "MATIC"} |->
        CASE s = "ETH" -> Num(2300) [] s = "USDC" -> Num(1) [] s = "MATIC" -> Norm(3, 4)]

\* test.ts: calculate(getMockTransactions(wallet), getMockPrices())
MockInput ==
    [transactions |-> WithHashes(mockTransactions), currentPrices |-> mockCurrentPrices]

Inputs == {[transactions |-> WithHashes(l), currentPrices |-> pm] :
              l \in TxLists \cup Scenarios, pm \in PriceMaps} \cup {MockInput}

\* ------------------------------------------------------------------------
\* Specification
\* ------------------------------------------------------------------------
NoDisposal == [ref |-> 0]

\* processTransaction that sends only sells to removePosition
processTransactionSellOnly(m, st, ref) ==
    LET tx == st.transactions[ref]
        key == getTokenKey(tx.chain, tx.token_symbol, tx.token_address)
    IN  IF tx.type = "buy" \/ tx.type = "transfer_in"
        THEN LET r == addPosition(st.positions, st.tokenPnL, key, tx)
             IN  [st EXCEPT !.positions = r.positions, !.tokenPnL = r.tokenPnL]
        ELSE IF tx.type = "sell"
        THEN LET r == removePosition(m, st.positions, st.tokenPnL, key, tx)
             IN  [positions |-> r.positions,
                  tokenPnL |-> r.tokenPnL,
                  transactions |->
                      [st.transactions EXCEPT ![ref].realized_pnl_usd = r.realizedPnL],
                  lastDisposal |->
                      [ref |-> ref, key |-> key, lotsBefore |-> r.lotsBefore,
                       before |-> r.before, after |-> r.after,
                       totalCostBasis |-> r.totalCostBasis,
                       realizedPnL |-> r.realizedPnL]]
        ELSE st

\* processTransaction on the transaction object txs[ref]; st holds
\* this.positions, this.tokenPnL, the transaction objects and the record of
\* the last removePosition call
processTransaction(m, st, ref) ==
    LET tx == st.transactions[ref]
        key == getTokenKey(tx.chain, tx.token_symbol, tx.token_address)
    IN  IF tx.type = "buy" \/ tx.type = "transfer_in"
        THEN LET r == addPosition(st.positions, st.tokenPnL, key, tx)
             IN  [st EXCEPT !.positions = r.positions, !.tokenPnL = r.tokenPnL]
        ELSE IF tx.type = "sell" \/ tx.type = "transfer_out"
        THEN LET r == removePosition(m, st.positions, st.tokenPnL, key, tx)
             IN  [positions |-> r.positions,
                  tokenPnL |-> r.tokenPnL,
                  transactions |->
                      [st.transactions EXCEPT ![ref].realized_pnl_usd = r.realizedPnL],
                  lastDisposal |->
                      [ref |-> ref, key |-> key, lotsBefore |-> r.lotsBefore,
                       before |-> r.before, after |-> r.after,
                       totalCostBasis |-> r.totalCostBasis,
                       realizedPnL |-> r.realizedPnL]]
        ELSE st

RECURSIVE Replay(_, _, _, _)
\* the replay loop of calculate from the i-th element of sorted on
Replay(m, st, sorted, i) ==
    IF i > Len(sorted) THEN st
    ELSE Replay(m, processTransaction(m, st, sorted[i]), sorted, i + 1)

\* calculate as a function of its arguments, on an instance using method m
calculate(m, txs, prices) ==
    LET sorted == SortTransactions(txs)
        st == Replay(m, [positions |-> <<>>, tokenPnL |-> <<>>, transactions |-> txs,
                         lastDisposal |-> NoDisposal], sorted, 1)
    IN  BuildResult(st.transactions, sorted, calculateUnrealizedPnL(st.tokenPnL, prices))

\* by_token of a returned result holds the TokenPnL objects of this.tokenPnL
\* themselves (Array.from(this.tokenPnL.values())): as long as the map still
\* holds the object of a key (the key is in inMap), a write to the entry of
\* the map is a write to that result
SeenThrough(e, tp) ==
    [k \in 1..Len(e) |->
        LET old == e[k].result.by_token
            KeyOf(t) == getTokenKey(t.chain, t.token_symbol, t.token_address)
        IN  [e[k] EXCEPT !.result.by_token =
                [i \in 1..Len(old) |->
                    IF KeyOf(old[i]) \in e[k].inMap /\ EntryIndex(tp, KeyOf(old[i])) # 0
                    THEN tp[EntryIndex(tp, KeyOf(old[i]))].val
                    ELSE old[i]]]]

\* this.tokenPnL.clear(): the map lets go of every object
LetGo(e) == [k \in 1..Len(e) |-> [e[k] EXCEPT !.inMap = {}]]

Init ==
    /\ method \in Methods
    /\ \E inp \in Inputs :
          /\ given = inp.transactions
          /\ transactions = inp.transactions
          /\ currentPrices = inp.currentPrices
    /\ pc = "Idle"
    /\ sortedTxs = <<>>
    /\ idx = 0
    /\ positions = <<>>
    /\ tokenPnL = <<>>
    /\ lastDisposal = NoDisposal
    /\ result = Undefined
    /\ clock = 0
    /\ earlier = <<>>
    /\ ServiceOff

\* calculate without the two clear() calls
CalculateKeepsMaps ==
    /\ UNCHANGED serviceVars
    /\ pc = "Idle"
    /\ sortedTxs' = SortTransactions(transactions)
    /\ idx' = 0
    /\ lastDisposal' = NoDisposal
    /\ pc' = "Replaying"
    /\ UNCHANGED <<method, given, transactions, currentPrices, result, clock,
                   positions, tokenPnL, earlier>>

\* calculate clearing this.tokenPnL only
CalculateKeepsPositions ==
    /\ UNCHANGED serviceVars
    /\ pc = "Idle"
    /\ tokenPnL' = <<>>
    /\ earlier' = LetGo(earlier)
    /\ sortedTxs' = SortTransactions(transactions)
    /\ idx' = 0
    /\ lastDisposal' = NoDisposal
    /\ pc' = "Replaying"
    /\ UNCHANGED <<method, given, transactions, currentPrices, result, clock, positions>>

\* calculate, lines 31-36: reset the maps, sort a copy of the input array
Calculate ==
    /\ UNCHANGED serviceVars
    /\ pc = "Idle"
    /\ positions' = <<>>
    /\ tokenPnL' = <<>>
    /\ earlier' = LetGo(earlier)
    /\ sortedTxs' = SortTransactions(transactions)
    /\ idx' = 0
    /\ lastDisposal' = NoDisposal
    /\ pc' = "Replaying"
    /\ UNCHANGED <<method, given, transactions, currentPrices, result, clock>>

\* one iteration of the replay loop, lines 39-41
ProcessTransaction ==
    /\ UNCHANGED serviceVars
    /\ pc = "Replaying"
    /\ idx < Len(sortedTxs)
    /\ LET st == processTransaction(method,
                    [positions |-> positions, tokenPnL |-> tokenPnL,
                     transactions |-> transactions, lastDisposal |-> lastDisposal],
                    sortedTxs[idx + 1])
       IN  /\ positions' = st.positions
           /\ tokenPnL' = st.tokenPnL
           /\ transactions' = st.transactions
           /\ lastDisposal' = st.lastDisposal
           /\ earlier' = SeenThrough(earlier, st.tokenPnL)
    /\ idx' = idx + 1
    /\ UNCHANGED <<method, given, currentPrices, pc, sortedTxs, result, clock>>

\* calculate, line 44, after the last transaction
CalculateUnrealizedPnL ==
    /\ UNCHANGED serviceVars
    /\ pc = "Replaying"
    /\ idx = Len(sortedTxs)
    /\ tokenPnL' = calculateUnrealizedPnL(tokenPnL, currentPrices)
    /\ earlier' = SeenThrough(earlier, tokenPnL')
    /\ pc' = "Finalizing"
    /\ UNCHANGED <<method, given, transactions, currentPrices, sortedTxs, idx, positions,
                   lastDisposal, result, clock>>

\* calculate, lines 47-67: aggregate and return
Return ==
    /\ UNCHANGED serviceVars
    /\ pc = "Finalizing"
    /\ result' = PnLResult(BuildResult(transactions, sortedTxs, tokenPnL),
                           Metadata(transactions, clock))
    /\ pc' = "Done"
    /\ UNCHANGED <<method, given, transactions, currentPrices, sortedTxs, idx, positions,
                   tokenPnL, lastDisposal, clock, earlier>>

Next == Calculate \/ ProcessTransaction \/ CalculateUnrealizedPnL \/ Return

Spec == Init /\ [][Next]_vars

\* ------------------------------------------------------------------------
\* An instance called again, by any caller
\* ------------------------------------------------------------------------
MaxCalls == 2
MaxClock == 1
MaxCallerTxs == 2

\* what JavaScript lets a caller pass as method: the three names or any
\* other string
MethodValues == Methods \cup {"hifo"}

\* transactions a caller can pass, negative quantities and prices included;
\* realized_pnl_usd is an optional field a caller may have filled in
CallerPool ==
    {TokTx(TokA, 1, "buy", 1, 1), TokTx(TokA, 1, "buy", 0, 1),
     TokTx(TokA, 2, "sell", 1, 2), TokTx(TokA, 2, "transfer_out", 1, 2),
     [TokTx(TokB, 1, "buy", 1, 1) EXCEPT !.realized_pnl_usd = Num(7)],
     TokTx(TokA, 1, "buy", -1, 1), TokTx(TokA, 2, "sell", 1, -1)}

CallerInputs ==
    {[transactions |-> WithHashes(l), currentPrices |-> [s \in {"ETH"} |-> Num(2)]] :
        l \in UNION {[1..n -> CallerPool] : n \in 0..MaxCallerTxs}}

InitInstance ==
    /\ method \in MethodValues
    /\ \E inp \in CallerInputs :
          /\ given = inp.transactions
          /\ transactions = inp.transactions
          /\ currentPrices = inp.currentPrices
    /\ pc = "Idle"
    /\ sortedTxs = <<>>
    /\ idx = 0
    /\ positions = <<>>
    /\ tokenPnL = <<>>
    /\ lastDisposal = NoDisposal
    /\ result = Undefined
    /\ clock = 0
    /\ earlier = <<>>
    /\ ServiceOff

\* the caller keeps the result and calls calculate again on the same
\* instance: with new arrays, or with the transaction objects of the call
\* before as they are now.  The fields of the instance stay as they are.
CallAgain ==
    /\ UNCHANGED serviceVars
    /\ pc = "Done"
    /\ Len(earlier) + 1 < MaxCalls
    /\ earlier' = Append(earlier,
           [given |-> given, currentPrices |-> currentPrices,
            returned |-> result, result |-> result,
            inMap |-> {tokenPnL[i].key : i \in 1..Len(tokenPnL)}])
    /\ \/ \E inp \in CallerInputs :
             /\ given' = inp.transactions
             /\ transactions' = inp.transactions
             /\ currentPrices' = inp.currentPrices
       \/ /\ given' = transactions
          /\ UNCHANGED <<transactions, currentPrices>>
    /\ pc' = "Idle"
    /\ result' = Undefined
    /\ sortedTxs' = <<>>
    /\ idx' = 0
    /\ lastDisposal' = NoDisposal
    /\ UNCHANGED <<method, positions, tokenPnL, clock>>

\* time passes
Tick ==
    /\ UNCHANGED serviceVars
    /\ clock < MaxClock
    /\ clock' = clock + 1
    /\ UNCHANGED <<method, given, transactions, currentPrices, pc, sortedTxs, idx,
                   positions, tokenPnL, lastDisposal, result, earlier>>

NextInstance == Next \/ CallAgain \/ Tick

SpecInstance == InitInstance /\ [][NextInstance]_vars

\* ------------------------------------------------------------------------
\* The services: BlockchainFetcher, PriceFetcher, CacheService, WalletService
\* and the calculate_pnl entrypoint
\* ------------------------------------------------------------------------
MaxRuns == 2
maxRetries == 3
retryDelay == 1000
BATCH_SIZE == 5
MsPerDay == 86400000

\* config/index.ts: the chains with an explorer configuration
CHAIN_CONFIGS ==
    [c \in {"ethereum", "base", "arbitrum", "optimism", "polygon", "bsc"} |->
        [name |-> c,
         nativeToken |-> CASE c = "polygon" -> "MATIC" [] c = "bsc" -> "BNB"
                           [] OTHER -> "ETH"]]

\* PriceFetcher.coingeckoIdMap, the entries for the symbols that occur
coingeckoIdMap ==
    [s \in {"ETH", "USDC", "MATIC"} |->
        CASE s = "ETH" -> "ethereum" [] s = "USDC" -> "usd-coin"
          [] s = "MATIC" -> "matic-network"]

RECURSIVE Pow10(_)
Pow10(k) == IF k = 0 THEN 1 ELSE 10 * Pow10(k - 1)

\* parseFloat(value) / Math.pow(10, decimals) of a decimal string made of the
\* digits `digits` followed by `zeros` zeros
ParseUnits(value, decimals) ==
    IF value.digits = 0 THEN Zero
    ELSE IF value.zeros >= decimals
    THEN Num(value.digits * Pow10(value.zeros - decimals))
    ELSE Norm(value.digits, Pow10(decimals - value.zeros))

\* parseInt(tx.tokenDecimal || "18")
ParseDecimals(tokenDecimal) ==
    CASE tokenDecimal = "6" -> 6 [] tokenDecimal = "18" -> 18 [] OTHER -> 18

\* the wallet whose P&L is asked for
WalletAddress == "0xWallet"

\* fetchNormalTransactions, lines 103-130, on the response data
fetchNormalTransactions(data, walletAddress, chainConfig) ==
    IF data.status # "1" THEN <<>>
    ELSE LET addressLower == ToLowerCase(walletAddress)
             Kept(tx) == ParseUnits(tx.value, 18) # Zero
             kept == SelectSeq(data.result, Kept)
         IN  [i \in 1..Len(kept) |->
                [tx_hash |-> kept[i].hash,
                 chain |-> chainConfig.name,
                 timestamp |-> kept[i].timeStamp * 1000,
                 type |-> IF ToLowerCase(kept[i].from) = addressLower
                          THEN "transfer_out" ELSE "transfer_in",
                 token_symbol |-> chainConfig.nativeToken,
                 token_address |-> "0x0000000000000000000000000000000000000000",
                 quantity |-> ParseUnits(kept[i].value, 18),
                 price_usd |-> Zero,
                 realized_pnl_usd |-> Undefined]]

\* fetchTokenTransfers, lines 151-179, on the response data
fetchTokenTransfers(data, walletAddress, chainConfig) ==
    IF data.status # "1" THEN <<>>
    ELSE LET addressLower == ToLowerCase(walletAddress)
             Kept(tx) == ParseUnits(tx.value, ParseDecimals(tx.tokenDecimal)) # Zero
             kept == SelectSeq(data.result, Kept)
         IN  [i \in 1..Len(kept) |->
                [tx_hash |-> kept[i].hash,
                 chain |-> chainConfig.name,
                 timestamp |-> kept[i].timeStamp * 1000,
                 type |-> IF ToLowerCase(kept[i].from) = addressLower
                          THEN "transfer_out" ELSE "transfer_in",
                 token_symbol |-> kept[i].tokenSymbol,
                 token_address |-> kept[i].contractAddress,
                 quantity |-> ParseUnits(kept[i].value, ParseDecimals(kept[i].tokenDecimal)),
                 price_usd |-> Zero,
                 realized_pnl_usd |-> Undefined]]

\* what the explorer returns for one transfer
Raw(hash, secs, from, to, digits, zeros, symbol, decimal, address) ==
    [hash |-> hash, timeStamp |-> secs, from |-> from, to |-> to,
     value |-> [digits |-> digits, zeros |-> zeros],
     tokenSymbol |-> symbol, tokenDecimal |-> decimal, contractAddress |-> address]

\* the explorer's answers: an error status, or the list of transfers
ExplorerError == [status |-> "0", result |-> <<>>]
ExplorerList(l) == [status |-> "1", result |-> l]

\* the wallet received 2 of the native token on day 0 and sent 1 on day 1
\* (the explorer spells the sender in capitals), with a zero-value call between
NativeHistory ==
    <<Raw("0xh1", 0, "0xOther", "0xWallet", 2, 18, "", "", ""),
      Raw("0xh2", 0, "0xWallet", "0xOther", 0, 0, "", "", ""),
      Raw("0xh3", 86400, "0xWALLET", "0xOther", 1, 18, "", "", "")>>

\* the wallet received 3 and sent 1 of a token whose symbol the explorer
\* gives in small letters, with 6 decimals
TokenHistory ==
    <<Raw("0xh4", 0, "0xOther", "0xWallet", 3, 6, "usdc", "6", "0xC"),
      Raw("0xh5", 3600, "0xWallet", "0xOther", 1, 6, "usdc", "6", "0xC")>>

\* a transfer of 5 of a token with no decimals field and no price feed
UnknownTokenHistory ==
    <<Raw("0xh6", 0, "0xOther", "0xWallet", 5, 18, "XYZ", "", "0xB")>>

\* what the explorer holds for the wallet, per chain and request, and what
\* the price API holds per coin id (current) and per coin id and day
Upstreams ==
    {[explorer |-> [c \in DOMAIN CHAIN_CONFIGS |->
                      [txlist |-> IF c = "ethereum" THEN ExplorerList(NativeHistory)
                                  ELSE ExplorerList(<<>>),
                       tokentx |-> IF c = "ethereum" THEN ExplorerList(TokenHistory)
                                   ELSE ExplorerError]],
      current |-> [id \in {"ethereum", "usd-coin"} |->
                      IF id = "ethereum" THEN Num(3) ELSE Num(1)],
      historical |-> [k \in {"ethereum", "usd-coin"} \X {0, 1} |->
                         IF k[1] = "usd-coin" THEN Num(1) ELSE Num(k[2] + 1)]],
     [explorer |-> [c \in DOMAIN CHAIN_CONFIGS |->
                      [txlist |-> IF c \in {"ethereum", "polygon"}
                                  THEN ExplorerList(NativeHistory) ELSE ExplorerError,
                       tokentx |-> IF c = "polygon" THEN ExplorerList(UnknownTokenHistory)
                                   ELSE ExplorerList(<<>>)]],
      current |-> [id \in {"ethereum"} |-> Num(3)],
      historical |-> [k \in {"ethereum"} \X {0, 1} |-> Num(k[2] + 1)]]}

\* the chains a caller asks for: supported ones and one that is not
ChainLists == {<<"ethereum">>, <<"polygon", "ethereum">>, <<"ethereum", "solana">>}

\* calculatePnL(walletAddress, chains, costBasisMethod, useCache): the
\* arguments read by the fetch loop; the others are drawn where they are read
Requests == [chains : ChainLists, useCache : BOOLEAN]

\* the state of a retryRequest(url) call at its first axios.get
FirstAttempt(url) ==
    [url |-> url, attempt |-> 1, status |-> "pending", waits |-> <<>>, data |-> Undefined]

RECURSIVE Pow2(_)
Pow2(k) == IF k = 0 THEN 1 ELSE 2 * Pow2(k - 1)

\* retryRequest waiting the same time before every retry
RetryDelayFlat(attempt) == retryDelay

\* retryRequest: this.retryDelay * Math.pow(2, attempt - 1)
RetryDelay(attempt) == retryDelay * Pow2(attempt - 1)

\* the response body the API gives to the request named r
ResponseTo(r) ==
    IF r = "current"
    THEN [coins |-> [id \in requests[r].url \cap DOMAIN upstream.current |->
                        upstream.current[id]]]
    ELSE upstream.explorer[requests[r].url][r]

\* retryRequest: axios.get resolves, the call returns response.data
AxiosResolves ==
    /\ \E r \in DOMAIN requests :
          /\ requests[r].status = "pending"
          /\ requests' = [requests EXCEPT ![r].status = "returned",
                                          ![r].data = ResponseTo(r)]
    /\ UNCHANGED <<request, apiKey, transactionCache, priceCache, svcPc, chainIdx,
                   allTransactions, fetcherCalls, lookups, priceMap, output, runs,
                   upstream>>
    /\ UNCHANGED calculatorVars

\* retryRequest: axios.get rejects (network error, timeout, error status);
\* the call waits for its delay if attempts are left and throws otherwise
AxiosRejects ==
    /\ \E r \in DOMAIN requests :
          /\ requests[r].status = "pending"
          /\ requests' =
                IF requests[r].attempt < maxRetries
                THEN [requests EXCEPT ![r].status = "waiting",
                                      ![r].waits = Append(@, RetryDelay(requests[r].attempt))]
                ELSE [requests EXCEPT ![r].status = "thrown"]
    /\ UNCHANGED <<request, apiKey, transactionCache, priceCache, svcPc, chainIdx,
                   allTransactions, fetcherCalls, lookups, priceMap, output, runs,
                   upstream>>
    /\ UNCHANGED calculatorVars

\* retryRequest: the timer fires and the call tries again
TimerFires ==
    /\ \E r \in DOMAIN requests :
          /\ requests[r].status = "waiting"
          /\ requests' = [requests EXCEPT ![r].status = "pending",
                                          ![r].attempt = @ + 1]
    /\ UNCHANGED <<request, apiKey, transactionCache, priceCache, svcPc, chainIdx,
                   allTransactions, fetcherCalls, lookups, priceMap, output, runs,
                   upstream>>
    /\ UNCHANGED calculatorVars

\* the calculator is not in use while the services work: calculatePnL makes
\* a new PnLCalculator and calls calculate once, in its last step
CalculatorUnused ==
    /\ method = "fifo"
    /\ given = <<>>
    /\ transactions = <<>>
    /\ currentPrices = <<>>
    /\ pc = "Idle"
    /\ sortedTxs = <<>>
    /\ idx = 0
    /\ positions = <<>>
    /\ tokenPnL = <<>>
    /\ lastDisposal = NoDisposal
    /\ result = Undefined
    /\ clock = 0
    /\ earlier = <<>>

\* a process with the caches empty and the first calculatePnL call made
InitService ==
    /\ CalculatorUnused
    /\ request \in Requests
    /\ apiKey \in BOOLEAN
    /\ upstream \in Upstreams
    /\ transactionCache = <<>>
    /\ priceCache = <<>>
    /\ svcPc = "FetchLoop"
    /\ chainIdx = 0
    /\ allTransactions = <<>>
    /\ requests = <<>>
    /\ fetcherCalls = <<>>
    /\ lookups = Undefined
    /\ priceMap = <<>>
    /\ output = Undefined
    /\ runs = <<>>

\* Map.prototype.set, NodeCache.set
MapSet(m, k, v) == [x \in DOMAIN m \cup {k} |-> IF x = k THEN v ELSE m[x]]

\* CacheService.getTransactionKey, getPriceKey, getHistoricalPriceKey; the
\* date string is kept as the number of the day
getTransactionKey(walletAddress, chain) == <<"tx", chain, ToLowerCase(walletAddress)>>
getPriceKey(tokenSymbol) == <<"price", ToUpperCase(tokenSymbol)>>
getHistoricalPriceKey(tokenSymbol, timestamp) ==
    <<"price", "hist", ToUpperCase(tokenSymbol), timestamp \div MsPerDay>>

\* WalletService.getDateKey
getDateKey(timestamp) == timestamp \div MsPerDay

\* the chain the loop of fetchTransactions is at
ThisChain == request.chains[chainIdx + 1]

\* fetchTransactions, lines 78-86: the chain is in the cache
FetchFromCache ==
    /\ svcPc = "FetchLoop"
    /\ chainIdx < Len(request.chains)
    /\ request.useCache
    /\ getTransactionKey(WalletAddress, ThisChain) \in DOMAIN transactionCache
    /\ allTransactions' =
           allTransactions \o transactionCache[getTransactionKey(WalletAddress, ThisChain)]
    /\ chainIdx' = chainIdx + 1
    /\ UNCHANGED <<request, apiKey, transactionCache, priceCache, svcPc, requests,
                   fetcherCalls, lookups, priceMap, output, runs, upstream>>
    /\ UNCHANGED calculatorVars

\* fetchTransactions, line 89, into BlockchainFetcher.fetchTransactions,
\* lines 44-66: an unsupported chain throws, through fetchTransactions and
\* calculatePnL; without API key the chain gives nothing; otherwise the two
\* requests are sent
FetchFromApi ==
    /\ svcPc = "FetchLoop"
    /\ chainIdx < Len(request.chains)
    /\ ~(request.useCache
           /\ getTransactionKey(WalletAddress, ThisChain) \in DOMAIN transactionCache)
    /\ fetcherCalls' = Append(fetcherCalls, ThisChain)
    /\ IF ThisChain \notin DOMAIN CHAIN_CONFIGS
       THEN /\ svcPc' = "Failed"
            /\ output' = [error |-> "Unsupported chain", chain |-> ThisChain]
            /\ UNCHANGED <<chainIdx, requests>>
       ELSE IF ~apiKey
       THEN /\ chainIdx' = chainIdx + 1
            /\ UNCHANGED <<svcPc, output, requests>>
       ELSE /\ requests' = [r \in {"txlist", "tokentx"} |-> FirstAttempt(ThisChain)]
            /\ svcPc' = "AwaitChain"
            /\ UNCHANGED <<chainIdx, output>>
    /\ UNCHANGED <<request, apiKey, transactionCache, priceCache, allTransactions,
                   lookups, priceMap, runs, upstream>>
    /\ UNCHANGED calculatorVars

\* fetchTransactions caching whatever the fetch gave, an empty list too
ChainSettledCachesAll ==
    /\ svcPc = "AwaitChain"
    /\ \/ \A r \in DOMAIN requests : requests[r].status = "returned"
       \/ \E r \in DOMAIN requests : requests[r].status = "thrown"
    /\ LET chainConfig == CHAIN_CONFIGS[ThisChain]
           fetched ==
               IF \E r \in DOMAIN requests : requests[r].status = "thrown" THEN <<>>
               ELSE fetchNormalTransactions(requests["txlist"].data, WalletAddress,
                                            chainConfig)
                    \o fetchTokenTransfers(requests["tokentx"].data, WalletAddress,
                                           chainConfig)
       IN  /\ allTransactions' = allTransactions \o fetched
           /\ transactionCache' =
                  IF request.useCache
                  THEN MapSet(transactionCache,
                              getTransactionKey(WalletAddress, ThisChain), fetched)
                  ELSE transactionCache
    /\ requests' = <<>>
    /\ chainIdx' = chainIdx + 1
    /\ svcPc' = "FetchLoop"
    /\ UNCHANGED <<request, apiKey, priceCache, fetcherCalls, lookups, priceMap, output,
                   runs, upstream>>
    /\ UNCHANGED calculatorVars

\* BlockchainFetcher.fetchTransactions, lines 63-82, and fetchTransactions,
\* lines 94-101: Promise.all has both lists, or one request has thrown and
\* the chain gives nothing; a list that is not empty is kept and cached
ChainSettled ==
    /\ svcPc = "AwaitChain"
    /\ \/ \A r \in DOMAIN requests : requests[r].status = "returned"
       \/ \E r \in DOMAIN requests : requests[r].status = "thrown"
    /\ LET chainConfig == CHAIN_CONFIGS[ThisChain]
           fetched ==
               IF \E r \in DOMAIN requests : requests[r].status = "thrown" THEN <<>>
               ELSE fetchNormalTransactions(requests["txlist"].data, WalletAddress,
                                            chainConfig)
                    \o fetchTokenTransfers(requests["tokentx"].data, WalletAddress,
                                           chainConfig)
       IN  IF Len(fetched) > 0
           THEN /\ allTransactions' = allTransactions \o fetched
                /\ transactionCache' =
                       IF request.useCache
                       THEN MapSet(transactionCache,
                                   getTransactionKey(WalletAddress, ThisChain), fetched)
                       ELSE transactionCache
           ELSE UNCHANGED <<allTransactions, transactionCache>>
    /\ requests' = <<>>
    /\ chainIdx' = chainIdx + 1
    /\ svcPc' = "FetchLoop"
    /\ UNCHANGED <<request, apiKey, priceCache, fetcherCalls, lookups, priceMap, output,
                   runs, upstream>>
    /\ UNCHANGED calculatorVars

\* getEmptyResult
getEmptyResult(chains, t) ==
    [summary |-> [total_realized_pnl_usd |-> Zero, total_unrealized_pnl_usd |-> Zero,
                  total_pnl_usd |-> Zero, total_pnl_percentage |-> Zero,
                  initial_investment_usd |-> Zero, current_value_usd |-> Zero],
     by_chain |-> <<>>, by_token |-> <<>>, transactions |-> <<>>,
     metadata |-> [last_updated |-> t, chains_queried |-> chains,
                   data_sources |-> <<"etherscan", "defillama", "coingecko">>]]

\* the calculate_pnl handler, index.ts lines 78-106, on the result of
\* calculatePnL
calculate_pnl(res, include_tokens) ==
    IF include_tokens.given /\ include_tokens.symbols # {}
    THEN LET Kept(x) == x.token_symbol \in include_tokens.symbols
             tokens == SelectSeq(res.by_token, Kept)
             total_realized ==
                 SumSeq([i \in 1..Len(tokens) |-> tokens[i].realized_pnl_usd], Zero)
             total_unrealized ==
                 SumSeq([i \in 1..Len(tokens) |-> tokens[i].unrealized_pnl_usd], Zero)
         IN  [res EXCEPT !.by_token = tokens,
                         !.transactions = SelectSeq(res.transactions, Kept),
                         !.summary.total_realized_pnl_usd = total_realized,
                         !.summary.total_unrealized_pnl_usd = total_unrealized,
                         !.summary.total_pnl_usd = Add(total_realized, total_unrealized)]
    ELSE res

\* what a caller of the entrypoint may pass as include_tokens: nothing, an
\* empty array, or symbols
NoTokens == [given |-> FALSE, symbols |-> {}]
IncludeTokens ==
    {NoTokens} \cup [given : {TRUE}, symbols : {{}, {"ETH"}, {"usdc"}, {"ETH", "XYZ"}}]

\* the key of the local price map of enrichWithPrices for tx
CacheKey(tx) == <<tx.token_symbol, getDateKey(tx.timestamp)>>

\* enrichWithPrices, lines 120-155: the prices found in the cache and the
\* array of the lookups to make, one per key in order of first occurrence
StartEnrich(txs, useCache, cache) ==
    LET Cached(tx) ==
            useCache /\ getHistoricalPriceKey(tx.token_symbol, tx.timestamp) \in DOMAIN cache
        NotCached(tx) == ~Cached(tx)
        missing == SelectSeq(txs, NotCached)
        keys == SetOrder([i \in 1..Len(missing) |-> CacheKey(missing[i])], {})
        First(k) == missing[CHOOSE i \in 1..Len(missing) :
                               /\ CacheKey(missing[i]) = k
                               /\ \A j \in 1..(i - 1) : CacheKey(missing[j]) # k]
    IN  [priceCache |->
             [k \in {CacheKey(txs[i]) : i \in {j \in 1..Len(txs) : Cached(txs[j])}} |->
                 LET tx == txs[CHOOSE i \in 1..Len(txs) :
                                  Cached(txs[i]) /\ CacheKey(txs[i]) = k]
                 IN  cache[getHistoricalPriceKey(tx.token_symbol, tx.timestamp)]],
         uniqueArray |->
             [n \in 1..Len(keys) |->
                 [cacheKey |-> keys[n], symbol |-> First(keys[n]).token_symbol,
                  timestamp |-> First(keys[n]).timestamp]],
         i |-> 0,
         inFlight |-> {},
         issued |-> <<>>,
         pauses |-> 0,
         hits |-> {}]

\* fetchTransactions, lines 104-106, and calculatePnL, lines 44-53: nothing
\* found gives the empty result; otherwise enrichWithPrices starts
FetchDone ==
    /\ svcPc = "FetchLoop"
    /\ chainIdx = Len(request.chains)
    /\ IF Len(allTransactions) = 0
       THEN /\ \E via \in {"calculate_pnl", "WalletService"}, include \in IncludeTokens :
                  /\ via = "calculate_pnl" => request.useCache
                  /\ via = "WalletService" => include = NoTokens
                  /\ output' = [via |-> via, include_tokens |-> include,
                                result |-> IF via = "calculate_pnl"
                                           THEN calculate_pnl(
                                                    getEmptyResult(request.chains, clock),
                                                    include)
                                           ELSE getEmptyResult(request.chains, clock)]
            /\ svcPc' = "Done"
            /\ UNCHANGED lookups
       ELSE /\ lookups' = StartEnrich(allTransactions, request.useCache, priceCache)
            /\ svcPc' = "Enrich"
            /\ UNCHANGED output
    /\ UNCHANGED <<request, apiKey, transactionCache, priceCache, chainIdx,
                   allTransactions, requests, fetcherCalls, priceMap, runs, upstream>>
    /\ UNCHANGED calculatorVars

\* PriceFetcher.getHistoricalPrice(symbol, timestamp), retries and failures
\* included: what it can return.  It returns 0 for a symbol without coin id,
\* when the API has no price and when the request fails (no CoinGecko key is
\* configured), and never throws
getHistoricalPrice(symbol, timestamp) ==
    LET upper == ToUpperCase(symbol)
        day == timestamp \div MsPerDay
    IN  IF upper \notin DOMAIN coingeckoIdMap THEN {Zero}
        ELSE IF <<coingeckoIdMap[upper], day>> \in DOMAIN upstream.historical
        THEN {Zero, OrZero(upstream.historical[<<coingeckoIdMap[upper], day>>])}
        ELSE {Zero}

\* enrichWithPrices issuing every lookup of the array at once
IssueAll ==
    /\ svcPc = "Enrich"
    /\ lookups.i < Len(lookups.uniqueArray)
    /\ LET batch == (lookups.i + 1)..Len(lookups.uniqueArray)
       IN  lookups' = [lookups EXCEPT !.inFlight = batch,
                          !.issued = @ \o [n \in 1..Cardinality(batch) |->
                                             lookups.uniqueArray[lookups.i + n].cacheKey]]
    /\ svcPc' = "AwaitBatch"
    /\ UNCHANGED <<request, apiKey, transactionCache, priceCache, chainIdx,
                   allTransactions, requests, fetcherCalls, priceMap, output, runs,
                   upstream>>
    /\ UNCHANGED calculatorVars

\* enrichWithPrices, lines 160-174: the next batch of at most BATCH_SIZE
\* lookups is issued
IssueBatch ==
    /\ svcPc = "Enrich"
    /\ lookups.i < Len(lookups.uniqueArray)
    /\ LET last == IF lookups.i + BATCH_SIZE < Len(lookups.uniqueArray)
                   THEN lookups.i + BATCH_SIZE ELSE Len(lookups.uniqueArray)
           batch == (lookups.i + 1)..last
       IN  lookups' = [lookups EXCEPT !.inFlight = batch,
                          !.issued = @ \o [n \in 1..Cardinality(batch) |->
                                             lookups.uniqueArray[lookups.i + n].cacheKey]]
    /\ svcPc' = "AwaitBatch"
    /\ UNCHANGED <<request, apiKey, transactionCache, priceCache, chainIdx,
                   allTransactions, requests, fetcherCalls, priceMap, output, runs,
                   upstream>>
    /\ UNCHANGED calculatorVars

\* enrichWithPrices, lines 172-191: one lookup of the batch settles; its
\* price goes to the local map, and to the cache when it is positive
LookupSettles ==
    /\ svcPc = "AwaitBatch"
    /\ \E n \in lookups.inFlight :
          LET entry == lookups.uniqueArray[n]
          IN  \E price \in getHistoricalPrice(entry.symbol, entry.timestamp) :
                 /\ lookups' = [lookups EXCEPT
                        !.inFlight = @ \ {n},
                        !.priceCache = MapSet(@, entry.cacheKey, price)]
                 /\ priceCache' =
                        IF Gt(price, Zero) /\ request.useCache
                        THEN MapSet(priceCache,
                                    getHistoricalPriceKey(entry.symbol, entry.timestamp),
                                    price)
                        ELSE priceCache
    /\ UNCHANGED <<request, apiKey, transactionCache, svcPc, chainIdx, allTransactions,
                   requests, fetcherCalls, priceMap, output, runs, upstream>>
    /\ UNCHANGED calculatorVars

\* enrichWithPrices, lines 193-199: Promise.all of the batch has settled;
\* the loop waits BATCH_DELAY when lookups are left
BatchDone ==
    /\ svcPc = "AwaitBatch"
    /\ lookups.inFlight = {}
    /\ lookups' = [lookups EXCEPT
           !.i = @ + BATCH_SIZE,
           !.pauses = IF lookups.i + BATCH_SIZE < Len(lookups.uniqueArray)
                      THEN @ + 1 ELSE @]
    /\ svcPc' = "Enrich"
    /\ UNCHANGED <<request, apiKey, transactionCache, priceCache, chainIdx,
                   allTransactions, requests, fetcherCalls, priceMap, output, runs,
                   upstream>>
    /\ UNCHANGED calculatorVars

\* enrichWithPrices, lines 210-220: every transaction gets the price of its
\* key in the local map, 0 when there is none
Enriched(txs, local) ==
    [i \in 1..Len(txs) |->
        [txs[i] EXCEPT !.price_usd =
            IF CacheKey(txs[i]) \in DOMAIN local THEN OrZero(local[CacheKey(txs[i])])
            ELSE Zero]]

\* PriceFetcher.getCurrentPrices, lines 77-87: the map built from the
\* response, keyed by the symbols of coingeckoIdMap
PricesFrom(data) ==
    LET Priced(symbol) ==
            /\ coingeckoIdMap[symbol] \in DOMAIN data.coins
            /\ OrZero(data.coins[coingeckoIdMap[symbol]]) # Zero
    IN  [symbol \in {x \in DOMAIN coingeckoIdMap : Priced(x)} |->
            data.coins[coingeckoIdMap[symbol]]]

\* the end of enrichWithPrices, lines 210-224, and getCurrentPrices, lines
\* 242-261, into PriceFetcher.getCurrentPrices, lines 58-75: the symbols found
\* in the price cache are served from it, the others are asked for in one
\* request when one of them has a coin id
FinishEnrich ==
    /\ svcPc = "Enrich"
    /\ lookups.i >= Len(lookups.uniqueArray)
    /\ LET enrichedTransactions == Enriched(allTransactions, lookups.priceCache)
           tokenSymbols ==
               SetOrder([i \in 1..Len(enrichedTransactions) |->
                            enrichedTransactions[i].token_symbol], {})
           Hit(symbol) == request.useCache /\ getPriceKey(symbol) \in DOMAIN priceCache
           Miss(symbol) == ~Hit(symbol)
           uncachedTokens == SelectSeq(tokenSymbols, Miss)
           hits == {tokenSymbols[i] : i \in 1..Len(tokenSymbols)}
                   \ {uncachedTokens[i] : i \in 1..Len(uncachedTokens)}
           coinIds == {coingeckoIdMap[ToUpperCase(uncachedTokens[i])] :
                          i \in {j \in 1..Len(uncachedTokens) :
                                    ToUpperCase(uncachedTokens[j]) \in DOMAIN coingeckoIdMap}}
       IN  /\ allTransactions' = enrichedTransactions
           /\ lookups' = [lookups EXCEPT !.hits = hits]
           /\ priceMap' = [symbol \in hits |-> priceCache[getPriceKey(symbol)]]
           /\ IF coinIds # {}
              THEN /\ requests' = [r \in {"current"} |-> FirstAttempt(coinIds)]
                   /\ svcPc' = "AwaitPrices"
              ELSE /\ requests' = <<>>
                   /\ svcPc' = "Calculate"
    /\ UNCHANGED <<request, apiKey, transactionCache, priceCache, chainIdx, fetcherCalls,
                   output, runs, upstream>>
    /\ UNCHANGED calculatorVars

\* PriceFetcher.getCurrentPrices, lines 75-102, and getCurrentPrices, lines
\* 263-273: the fetched prices (none when the request has thrown: no
\* CoinGecko key is configured) go to the map and to the cache
CurrentPricesSettled ==
    /\ svcPc = "AwaitPrices"
    /\ requests["current"].status \in {"returned", "thrown"}
    /\ LET fetchedPrices == IF requests["current"].status = "returned"
                            THEN PricesFrom(requests["current"].data) ELSE <<>>
       IN  /\ priceMap' = [symbol \in DOMAIN priceMap \cup DOMAIN fetchedPrices |->
                              IF symbol \in DOMAIN fetchedPrices
                              THEN fetchedPrices[symbol] ELSE priceMap[symbol]]
           /\ priceCache' =
                  IF request.useCache
                  THEN [k \in DOMAIN priceCache
                              \cup {getPriceKey(symbol) : symbol \in DOMAIN fetchedPrices} |->
                           IF \E symbol \in DOMAIN fetchedPrices : getPriceKey(symbol) = k
                           THEN fetchedPrices[CHOOSE symbol \in DOMAIN fetchedPrices :
                                                 getPriceKey(symbol) = k]
                           ELSE priceCache[k]]
                  ELSE priceCache
    /\ requests' = <<>>
    /\ svcPc' = "Calculate"
    /\ UNCHANGED <<request, apiKey, transactionCache, chainIdx, allTransactions,
                   fetcherCalls, lookups, output, runs, upstream>>
    /\ UNCHANGED calculatorVars

\* calculatePnL, lines 59-65, called directly or by the calculate_pnl
\* handler, index.ts lines 71-111 (which passes useCache = true and filters
\* by include_tokens)
CalculateAndReturn ==
    /\ svcPc = "Calculate"
    /\ \E m \in Methods, via \in {"calculate_pnl", "WalletService"},
         include \in IncludeTokens :
          /\ via = "calculate_pnl" => request.useCache
          /\ via = "WalletService" => include = NoTokens
          /\ LET res == PnLResult(calculate(m, allTransactions, priceMap),
                                  Metadata(allTransactions, clock))
             IN  output' = [via |-> via, include_tokens |-> include, method |-> m,
                            result |-> IF via = "calculate_pnl"
                                       THEN calculate_pnl(res, include) ELSE res]
    /\ svcPc' = "Done"
    /\ UNCHANGED <<request, apiKey, transactionCache, priceCache, chainIdx,
                   allTransactions, requests, fetcherCalls, lookups, priceMap, runs,
                   upstream>>
    /\ UNCHANGED calculatorVars

\* the process is asked again, the caches as they are
NewRun ==
    /\ svcPc \in {"Done", "Failed"}
    /\ Len(runs) + 1 < MaxRuns
    /\ runs' = Append(runs, [request |-> request,
                             symbols |-> {allTransactions[i].token_symbol :
                                            i \in 1..Len(allTransactions)},
                             priceMap |-> priceMap,
                             hits |-> IF lookups = Undefined THEN {} ELSE lookups.hits,
                             failed |-> svcPc = "Failed"])
    /\ request' \in Requests
    /\ svcPc' = "FetchLoop"
    /\ chainIdx' = 0
    /\ allTransactions' = <<>>
    /\ requests' = <<>>
    /\ fetcherCalls' = <<>>
    /\ lookups' = Undefined
    /\ priceMap' = <<>>
    /\ output' = Undefined
    /\ UNCHANGED <<apiKey, transactionCache, priceCache, upstream>>
    /\ UNCHANGED calculatorVars

NextService ==
    \/ FetchFromCache \/ FetchFromApi \/ AxiosResolves \/ AxiosRejects \/ TimerFires
    \/ ChainSettled \/ FetchDone \/ IssueBatch \/ LookupSettles \/ BatchDone
    \/ FinishEnrich \/ CurrentPricesSettled \/ CalculateAndReturn \/ NewRun

SpecService == InitService /\ [][NextService]_vars

\* ---- enrichWithPrices on a longer history ----

\* the most days a history spans
MaxDays == 7

\* the wallet received 1 of the native token on each of the days listed
DailyHistory(days) ==
    [i \in 1..Len(days) |->
        Raw(<<"0xe1", "0xe2", "0xe3", "0xe4", "0xe5", "0xe6", "0xe7", "0xe8">>[i],
            86400 * days[i], "0xOther", "0xWallet", 1, 18, "", "", "")]

\* histories with five, six (two days twice) and seven days
Histories ==
    {DailyHistory([i \in 1..5 |-> i - 1]),
     DailyHistory(<<0, 0, 1, 2, 3, 4, 5, 5>>),
     DailyHistory([i \in 1..MaxDays |-> i - 1])}

\* an earlier call that has left the transactions and a historical price in
\* the caches
EarlierRun ==
    [request |-> [chains |-> <<"ethereum">>, useCache |-> TRUE],
     symbols |-> {"ETH"}, priceMap |-> <<>>, hits |-> {}, failed |-> FALSE]

\* calculatePnL, line 38: fetchTransactions has returned the history of one
\* chain, fetched or, after an earlier call, from the cache
InitEnrich ==
    /\ CalculatorUnused
    /\ \E h \in Histories, u \in Upstreams, useCache \in BOOLEAN, warm \in BOOLEAN :
          LET fetched == fetchNormalTransactions(ExplorerList(h), WalletAddress,
                                                 CHAIN_CONFIGS["ethereum"])
          IN  /\ warm => useCache
              /\ request = [chains |-> <<"ethereum">>, useCache |-> useCache]
              /\ upstream = [u EXCEPT !.explorer["ethereum"] =
                                [txlist |-> ExplorerList(h),
                                 tokentx |-> ExplorerList(<<>>)]]
              /\ allTransactions = fetched
              /\ transactionCache =
                     IF useCache
                     THEN MapSet(<<>>, getTransactionKey(WalletAddress, "ethereum"), fetched)
                     ELSE <<>>
              /\ priceCache = IF warm
                              THEN MapSet(<<>>, getHistoricalPriceKey("ETH", 0), Num(1))
                              ELSE <<>>
              /\ fetcherCalls = IF warm THEN <<>> ELSE <<"ethereum">>
              /\ runs = IF warm THEN <<EarlierRun>> ELSE <<>>
    /\ apiKey = TRUE
    /\ svcPc = "FetchLoop"
    /\ chainIdx = 1
    /\ requests = <<>>
    /\ lookups = Undefined
    /\ priceMap = <<>>
    /\ output = Undefined

NextEnrich ==
    \/ FetchDone \/ IssueBatch \/ LookupSettles \/ BatchDone \/ FinishEnrich

SpecEnrich == InitEnrich /\ [][NextEnrich]_vars

\* ------------------------------------------------------------------------
\* Vocabulary of the properties
\* ------------------------------------------------------------------------
\* sum of the quantities of an array of lots
TotalQuantity(lots) == SumSeq([i \in 1..Len(lots) |-> lots[i].quantity], Zero)

\* sum of quantity x unit cost of an array of lots
TotalCost(lots) ==
    SumSeq([i \in 1..Len(lots) |-> Mul(lots[i].quantity, lots[i].price_usd)], Zero)

MaxNum(a, b) == IF Lt(a, b) THEN b ELSE a

\* the transaction replayed last was a disposal; lastDisposal describes it
LastWasDisposal ==
    /\ lastDisposal.ref # 0
    /\ idx > 0
    /\ sortedTxs[idx] = lastDisposal.ref

\* quantity the last disposal took from the i-th lot it was offered
Taken(i) == Sub(lastDisposal.before[i].quantity, lastDisposal.after[i].quantity)

\* summary, by_chain, by_token and transactions of a returned object
Core(r) ==
    [summary |-> r.summary, by_chain |-> r.by_chain, by_token |-> r.by_token,
     transactions |-> r.transactions]

Orderings(n) ==
    {f \in [1..n -> 1..n] : \A i, j \in 1..n : i # j => f[i] # f[j]}

Permute(txs, f) == [i \in 1..Len(txs) |-> txs[f[i]]]

\* f keeps the relative order of the transactions that share a timestamp
KeepsTies(txs, f) ==
    \A i, j \in 1..Len(txs) :
        (i < j /\ txs[f[i]].timestamp = txs[f[j]].timestamp) => f[i] < f[j]

RECURSIVE ExpectedOpen(_, _, _)
\* quantity of the key that a ledger holds after the first k transactions of
\* sorted: acquisitions add, disposals subtract down to zero
ExpectedOpen(key, sorted, k) ==
    IF k = 0 THEN Zero
    ELSE LET tx == given[sorted[k]]
             prev == ExpectedOpen(key, sorted, k - 1)
         IN  IF getTokenKey(tx.chain, tx.token_symbol, tx.token_address) # key THEN prev
             ELSE IF tx.type \in Acquisitions THEN Add(prev, tx.quantity)
             ELSE MaxNum(Sub(prev, tx.quantity), Zero)

\* position in sortedTxs of the transaction object ref
PlaceOf(ref) == CHOOSE k \in 1..Len(sortedTxs) : sortedTxs[k] = ref

\* ------------------------------------------------------------------------
\* Properties
\* ------------------------------------------------------------------------

\* C1: under every method, after a disposal of quantity q on a key whose
\* open lots total Q, the key's open lots total max(Q - q, 0) and no lot of
\* the key has a remaining quantity of zero.
C1_DisposalReducesOpenLots ==
    LastWasDisposal =>
        LET q == given[lastDisposal.ref].quantity
            Q == TotalQuantity(lastDisposal.lotsBefore)
            now == PositionsOf(positions, lastDisposal.key)
        IN  /\ TotalQuantity(now) = MaxNum(Sub(Q, q), Zero)
            /\ \A i \in 1..Len(now) : Gt(now[i].quantity, Zero)

\* C2: the realized P&L of every disposal is quantity x price minus the cost
\* basis consumed; the cost basis consumed is the sum over the lots of
\* (quantity taken x unit cost applied), and the quantities taken sum to
\* min(quantity, quantity open before the disposal).  A lot from which
\* nothing is taken adds nothing to the cost basis consumed.
C2_RealizedIsProceedsMinusCost ==
    lastDisposal.ref # 0 =>
        LET d == lastDisposal
            tx == given[d.ref]
            n == Len(d.before)
            cost == SumSeq([i \in 1..n |->
                               IF Gt(Taken(i), Zero)
                               THEN Mul(Taken(i), d.before[i].price_usd) ELSE Zero], Zero)
        IN  /\ Len(d.after) = n
            /\ \A i \in 1..n : Ge(Taken(i), Zero)
            /\ SumSeq([i \in 1..n |-> Taken(i)], Zero)
                   = MathMin(tx.quantity, TotalQuantity(d.lotsBefore))
            /\ d.totalCostBasis = cost
            /\ d.realizedPnL = Sub(Mul(tx.quantity, tx.price_usd), cost)
            /\ transactions[d.ref].realized_pnl_usd = d.realizedPnL

\* C3: buys of 2 at 1800 and 1 at 2000, then a sell of 1 at 2200: the
\* realized P&L of the sell is 400 under fifo, 200 under lifo and 333.33
\* (within 0.01) under avg.
C3_DivergenceScenario ==
    (pc = "Done" /\ given = WithHashes(ScenarioDivergence)) =>
        LET r == result.transactions[3].realized_pnl_usd
        IN  /\ result.transactions[3].type = "sell"
            /\ method = "fifo" => r = Num(400)
            /\ method = "lifo" => r = Num(200)
            /\ method = "avg" =>
                   /\ IsFinite(r)
                   /\ ~Gt(Abs(Sub(r, Norm(33333, 100))), Norm(1, 100))

C3_Witness ==
    /\ pc = "Done"
    /\ given = WithHashes(ScenarioDivergence)
    /\ method = "avg"
    /\ result.by_token[1].realized_pnl_usd = Norm(1000, 3)

\* C4: under every method, buying 1 at 100 and then selling 1 at 150 gives a
\* by_token entry with quantity_held 0, unrealized P&L 0, realized P&L 50 and
\* total P&L 50.
C4_FullExitScenario ==
    (pc = "Done" /\ given = WithHashes(ScenarioFullExit)) =>
        /\ Len(result.by_token) = 1
        /\ result.by_token[1].quantity_held = Zero
        /\ result.by_token[1].unrealized_pnl_usd = Zero
        /\ result.by_token[1].realized_pnl_usd = Num(50)
        /\ result.by_token[1].total_pnl_usd = Num(50)

\* C5: a disposal of more than the key's open quantity consumes all open
\* lots of the key and charges the cost basis of the units that existed,
\* nothing for the shortfall; selling 5 at 12 with 2 held at 10 charges 20
\* and realizes 40.
C5_OversellConsumesAll ==
    /\ (LastWasDisposal /\ Gt(given[lastDisposal.ref].quantity,
                              TotalQuantity(lastDisposal.lotsBefore))) =>
           LET tx == given[lastDisposal.ref]
               held == TotalCost(lastDisposal.lotsBefore)
           IN  /\ PositionsOf(positions, lastDisposal.key) = <<>>
               /\ lastDisposal.totalCostBasis = held
               /\ lastDisposal.realizedPnL = Sub(Mul(tx.quantity, tx.price_usd), held)
    /\ (LastWasDisposal /\ given = WithHashes(ScenarioOversell)) =>
           /\ lastDisposal.totalCostBasis = Num(20)
           /\ lastDisposal.realizedPnL = Num(40)

\* C6 as claimed: the result is the same for every permutation of the input
\* list, whatever the timestamps.
C6_AnyPermutation ==
    pc = "Done" =>
        \A f \in Orderings(Len(given)) :
            calculate(method, Permute(given, f), currentPrices) = Core(result)

\* C6 as amended: the result is the same for every permutation of the input
\* list that keeps the relative order of the transactions sharing a
\* timestamp (every permutation, when the timestamps are pairwise distinct).
C6_TieKeepingPermutation ==
    pc = "Done" =>
        \A f \in Orderings(Len(given)) :
            KeepsTies(given, f) =>
                calculate(method, Permute(given, f), currentPrices) = Core(result)

\* three transactions, one of them a disposal, given out of time order, so
\* that a permutation other than the identity is compared
C6_Witness ==
    /\ pc = "Done"
    /\ Len(given) = 3
    /\ lastDisposal.ref # 0
    /\ sortedTxs # <<1, 2, 3>>
    /\ \E f \in Orderings(3) :
          /\ KeepsTies(given, f)
          /\ \E i \in 1..3 : f[i] # i
          /\ Permute(given, f) # given

C8_InitialInvestment ==
    pc = "Done" =>
        LET t == result.by_token
            remaining == SumSeq([i \in 1..Len(t) |->
                             Mul(t[i].quantity_held, t[i].average_buy_price_usd)], Zero)
            realized == SumSeq([i \in 1..Len(t) |-> t[i].realized_pnl_usd], Zero)
        IN  result.summary.initial_investment_usd = Add(remaining, Abs(realized))

\* two tokens, one with a realized gain and one with a realized loss
C8_Witness ==
    /\ pc = "Done"
    /\ Len(result.by_token) = 2
    /\ \E i, j \in 1..2 :
          /\ Gt(result.by_token[i].realized_pnl_usd, Zero)
          /\ Lt(result.by_token[j].realized_pnl_usd, Zero)
    /\ Gt(result.summary.initial_investment_usd, Zero)

\* C9: after every replayed transaction every lot of every key has a
\* remaining quantity >= 0, also the lots a disposal has just drawn from, and
\* the total of every key is >= 0.
C9_QuantitiesNeverNegative ==
    /\ \A key \in DOMAIN positions :
          /\ \A i \in 1..Len(positions[key]) : Ge(positions[key][i].quantity, Zero)
          /\ Ge(TotalQuantity(positions[key]), Zero)
    /\ lastDisposal.ref # 0 =>
          \A i \in 1..Len(lastDisposal.after) : Ge(lastDisposal.after[i].quantity, Zero)
    /\ \A i \in 1..Len(tokenPnL) : Ge(tokenPnL[i].val.quantity_held, Zero)

\* an oversell on a key that held something
C9_Witness ==
    /\ LastWasDisposal
    /\ Gt(TotalQuantity(lastDisposal.lotsBefore), Zero)
    /\ Gt(given[lastDisposal.ref].quantity, TotalQuantity(lastDisposal.lotsBefore))

\* C10: under avg, the unit cost applied to a disposal is the quantity-
\* weighted average cost of the key's open lots, and the quantities of those
\* lots reflect every earlier disposal on the key: they total what the
\* acquisitions replayed so far added minus what the disposals replayed so
\* far took.
C10_AvgPoolReflectsDisposals ==
    (method = "avg" /\ lastDisposal.ref # 0) =>
        LET d == lastDisposal
            Q == TotalQuantity(d.lotsBefore)
        IN  /\ Gt(Q, Zero) =>
                   \A i \in 1..Len(d.before) :
                       d.before[i].price_usd = Div(TotalCost(d.lotsBefore), Q)
            /\ Q = ExpectedOpen(d.key, sortedTxs, PlaceOf(d.ref) - 1)

\* the lot object that the i-th element offered to the last disposal is
\* (fifo, lifo: the elements are the lots themselves)
LotOf(i) == lastDisposal.lotsBefore[lastDisposal.before[i].ref]

\* C11: under fifo a disposal takes quantity from a lot only when every lot
\* of the key with an earlier acquisition timestamp is left with nothing;
\* under lifo only when every lot with a later acquisition timestamp is left
\* with nothing.
C11_TakesInTimestampOrder ==
    (lastDisposal.ref # 0 /\ method \in {"fifo", "lifo"}) =>
        \A i, j \in 1..Len(lastDisposal.before) :
            (/\ Gt(Taken(i), Zero)
             /\ method = "fifo" => LotOf(j).timestamp < LotOf(i).timestamp
             /\ method = "lifo" => LotOf(j).timestamp > LotOf(i).timestamp)
            => lastDisposal.after[j].quantity = Zero

\* a lifo disposal that draws from the later of two lots and leaves the
\* earlier one untouched
C11_Witness ==
    /\ LastWasDisposal
    /\ method = "lifo"
    /\ \E i, j \in 1..Len(lastDisposal.before) :
          /\ Gt(Taken(i), Zero)
          /\ LotOf(j).timestamp < LotOf(i).timestamp
          /\ Gt(lastDisposal.before[j].quantity, Zero)
          /\ Taken(j) = Zero

\* C12: under fifo and under lifo, a disposal takes quantity from a lot only
\* when every lot of the key with the same acquisition timestamp whose
\* acquisition was processed earlier is left with nothing.
C12_TiesInProcessingOrder ==
    (lastDisposal.ref # 0 /\ method \in {"fifo", "lifo"}) =>
        \A i, j \in 1..Len(lastDisposal.before) :
            (/\ Gt(Taken(i), Zero)
             /\ LotOf(j).timestamp = LotOf(i).timestamp
             /\ PlaceOf(LotOf(j).tx_hash) < PlaceOf(LotOf(i).tx_hash))
            => lastDisposal.after[j].quantity = Zero

\* a lifo disposal that draws from the first processed of two lots of one
\* timestamp and different cost, and leaves the second untouched
C12_Witness ==
    /\ LastWasDisposal
    /\ method = "lifo"
    /\ \E i, j \in 1..Len(lastDisposal.before) :
          /\ Gt(Taken(i), Zero)
          /\ LotOf(j).timestamp = LotOf(i).timestamp
          /\ PlaceOf(LotOf(i).tx_hash) < PlaceOf(LotOf(j).tx_hash)
          /\ LotOf(i).price_usd # LotOf(j).price_usd
          /\ Gt(lastDisposal.before[j].quantity, Zero)
          /\ Taken(j) = Zero

\* C13: when calculate has returned, every transaction record of the input
\* list has the field values it had at the call, realized_pnl_usd included.
C13_InputsUnmodified ==
    pc = "Done" => transactions = given

\* C14: a calculate call on an instance that has returned from an earlier
\* call returns the summary, by_token, by_chain and transactions that a new
\* instance of the same method returns for the same arguments; its replay
\* starts without lots and without per-token entries; and the results of the
\* earlier calls are still as they were returned.
C14_ReuseEqualsFresh ==
    /\ (pc = "Done" /\ earlier # <<>>) =>
           Core(result) = calculate(method, given, currentPrices)
    /\ (pc = "Replaying" /\ idx = 0) => (positions = <<>> /\ tokenPnL = <<>>)
    /\ \A k \in 1..Len(earlier) : earlier[k].result = earlier[k].returned

\* the second call has returned; the first left an open lot of the key that
\* the second call disposes of, on a different input
C14_Witness ==
    /\ pc = "Done"
    /\ Len(earlier) = 1
    /\ earlier[1].given # given
    /\ Len(earlier[1].returned.by_token) > 0
    /\ Gt(earlier[1].returned.by_token[1].quantity_held, Zero)
    /\ lastDisposal.ref # 0
    /\ lastDisposal.key = getTokenKey(earlier[1].returned.by_token[1].chain,
                                      earlier[1].returned.by_token[1].token_symbol,
                                      earlier[1].returned.by_token[1].token_address)

\* the call before this one had the same transaction list and price map
SameInputsAsBefore ==
    /\ pc = "Done"
    /\ earlier # <<>>
    /\ earlier[Len(earlier)].given = given
    /\ earlier[Len(earlier)].currentPrices = currentPrices

\* C15 as claimed: two calls with identical inputs return objects identical
\* in every field, metadata included.
C15_IdenticalInEveryField ==
    SameInputsAsBefore => result = earlier[Len(earlier)].returned

\* C15 as amended: two calls with identical inputs return objects identical
\* in summary, by_chain, by_token, transactions, metadata.chains_queried and
\* metadata.data_sources; metadata.last_updated is the clock value each call
\* read, so the second is not before the first.
C15_IdenticalButLastUpdated ==
    SameInputsAsBefore =>
        LET first == earlier[Len(earlier)].returned
        IN  /\ Core(result) = Core(first)
            /\ result.metadata.chains_queried = first.metadata.chains_queried
            /\ result.metadata.data_sources = first.metadata.data_sources
            /\ first.metadata.last_updated <= result.metadata.last_updated
            /\ result.metadata.last_updated <= clock

\* two calls on the same buy and sell, the second at a later time
C15_Witness ==
    /\ SameInputsAsBefore
    /\ Len(result.by_token) > 0
    /\ \E i \in 1..Len(result.transactions) :
          result.transactions[i].realized_pnl_usd # Undefined
    /\ result.metadata.last_updated # earlier[1].returned.metadata.last_updated

\* C16: calculate on an empty transaction list returns a summary whose six
\* numeric fields are 0 and empty by_chain, by_token and transactions.
C16_EmptyInput ==
    (pc = "Done" /\ given = <<>>) =>
        /\ result.summary = [total_realized_pnl_usd |-> Zero,
                             total_unrealized_pnl_usd |-> Zero,
                             total_pnl_usd |-> Zero,
                             total_pnl_percentage |-> Zero,
                             initial_investment_usd |-> Zero,
                             current_value_usd |-> Zero]
        /\ result.by_chain = <<>>
        /\ result.by_token = <<>>
        /\ result.transactions = <<>>

\* the call on the empty list has returned, with prices given
C16_Witness ==
    /\ pc = "Done"
    /\ given = <<>>
    /\ DOMAIN currentPrices # {}
    /\ result # Undefined
    /\ result.summary.total_pnl_percentage = Zero

\* a numeric field that holds a finite number; an absent annotation counts
NoNumberOrFinite(x) == x = Undefined \/ IsFinite(x)

\* C17: for inputs with non-negative finite quantities and prices, under
\* every method, no numeric field of the result (per token, per chain,
\* summary, a transaction's realized_pnl_usd) is NaN or infinite.
C17_NoNaNOrInfinity ==
    pc = "Done" =>
        /\ \A i \in 1..Len(result.by_token) :
              \A f \in {"quantity_held", "average_buy_price_usd", "current_price_usd",
                        "realized_pnl_usd", "unrealized_pnl_usd", "total_pnl_usd",
                        "pnl_percentage"} : IsFinite(result.by_token[i][f])
        /\ \A i \in 1..Len(result.by_chain) :
              \A f \in {"realized_pnl_usd", "unrealized_pnl_usd", "total_pnl_usd",
                        "pnl_percentage"} : IsFinite(result.by_chain[i][f])
        /\ \A f \in DOMAIN result.summary : IsFinite(result.summary[f])
        /\ \A i \in 1..Len(result.transactions) :
              NoNumberOrFinite(result.transactions[i].realized_pnl_usd)

\* C18: an instance whose method is not fifo, lifo or avg never returns a
\* result.
C18_UnknownMethodFails ==
    method \notin Methods => (pc # "Done" /\ result = Undefined)

NegativeInput ==
    \E i \in 1..Len(given) :
        Lt(given[i].quantity, Zero) \/ Lt(given[i].price_usd, Zero)

\* C19: for an input with a negative quantity or a negative price calculate
\* never returns a result and never creates a lot with a negative quantity.
C19_NegativeInputFails ==
    NegativeInput =>
        /\ pc # "Done"
        /\ result = Undefined
        /\ \A key \in DOMAIN positions :
              \A i \in 1..Len(positions[key]) : Ge(positions[key][i].quantity, Zero)

\* every transaction object of the input is in sortedTxs once and the replay
\* has passed the whole of sortedTxs
ReplayedOnce ==
    /\ Len(sortedTxs) = Len(given)
    /\ \A r \in 1..Len(given) :
          Cardinality({k \in 1..Len(sortedTxs) : sortedTxs[k] = r}) = 1
    /\ idx = Len(sortedTxs)

\* how far calculate has come: its position and the transactions replayed
Progress ==
    idx + (CASE pc = "Idle" -> 0 [] pc = "Replaying" -> 1
             [] pc = "Finalizing" -> 2 [] pc = "Done" -> 3)

\* the condition under which one of the steps of calculate can be taken
CanStep ==
    \/ pc = "Idle"
    \/ pc = "Replaying" /\ idx < Len(sortedTxs)
    \/ pc = "Replaying" /\ idx = Len(sortedTxs)
    \/ pc = "Finalizing"

\* C20: for every list of transactions with non-negative quantities and
\* prices and every price map, calculate terminates and returns: short of
\* the return a step can always be taken, every step brings the return
\* nearer, at most Len(given) + 3 steps are taken, and at the return there is
\* a result and each transaction has been replayed exactly once.
C20_ReturnsHavingReplayedOnce ==
    /\ [](pc # "Done" => CanStep)
    /\ [](Progress <= Len(given) + 3)
    /\ [][Progress' = Progress + 1]_vars
    /\ [](pc = "Done" => (result # Undefined /\ ReplayedOnce /\ Progress = Len(given) + 3))

\* a returned run without prices whose first replayed transaction is a
\* disposal on a key with no lot and whose last is an oversell
C20_Witness ==
    /\ pc = "Done"
    /\ result # Undefined
    /\ currentPrices = <<>>
    /\ Len(given) = MaxTxs
    /\ given[sortedTxs[1]].type \in Disposals
    /\ LastWasDisposal
    /\ Gt(TotalQuantity(lastDisposal.lotsBefore), Zero)
    /\ Gt(given[lastDisposal.ref].quantity, TotalQuantity(lastDisposal.lotsBefore))

\* the realized P&L that the replay of the call computes for the disposal
\* `ref`: the replay of sortedTxs up to that transaction, from empty maps
ComputedFor(ref) ==
    Replay(method,
           [positions |-> <<>>, tokenPnL |-> <<>>, transactions |-> given,
            lastDisposal |-> NoDisposal],
           SubSeq(sortedTxs, 1, PlaceOf(ref)), 1).lastDisposal.realizedPnL

\* C21: in the transactions array of the result, realized_pnl_usd is defined
\* exactly on the records of kind sell, where it is the realized P&L computed
\* for that disposal; on buy, transfer_in and transfer_out records it is
\* undefined, whatever the input record carried.
C21_OnlySellsAnnotated ==
    pc = "Done" =>
        \A i \in 1..Len(result.transactions) :
            LET r == result.transactions[i]
            IN  /\ r.type = given[sortedTxs[i]].type
                /\ r.type = "sell" =>
                       /\ r.realized_pnl_usd # Undefined
                       /\ r.realized_pnl_usd = ComputedFor(sortedTxs[i])
                /\ r.type # "sell" => r.realized_pnl_usd = Undefined

\* a returned call whose input held a sell and a transfer_out that both
\* carried a value already
C21_Witness ==
    /\ pc = "Done"
    /\ \E i, j \in 1..Len(given) :
          /\ given[i].type = "sell"
          /\ given[j].type = "transfer_out"
          /\ given[i].realized_pnl_usd # Undefined
          /\ given[j].realized_pnl_usd # Undefined

\* the list txs with the kind of its i-th transaction, a disposal, exchanged
\* for the other kind of disposal
FlipKind(txs, i) ==
    [txs EXCEPT ![i].type = IF @ = "sell" THEN "transfer_out" ELSE "sell"]

\* this.positions after the replay of txs on a new instance of method m
LedgerAfter(m, txs) ==
    Replay(m, [positions |-> <<>>, tokenPnL |-> <<>>, transactions |-> txs,
               lastDisposal |-> NoDisposal], SortTransactions(txs), 1).positions

\* C22: exchanging a sell for a transfer_out of the same key, timestamp,
\* quantity and price (or the reverse) leaves the lots, by_token, by_chain and
\* summary as they are; of the returned transactions only the record of that
\* transaction differs, and only in its kind and its annotation.
C22_TransferOutIsSell ==
    pc = "Done" =>
        \A i \in 1..Len(given) :
            given[i].type \in Disposals =>
                LET other == FlipKind(given, i)
                    r == calculate(method, other, currentPrices)
                IN  /\ LedgerAfter(method, other) = positions
                    /\ r.by_token = result.by_token
                    /\ r.by_chain = result.by_chain
                    /\ r.summary = result.summary
                    /\ \A k \in 1..Len(sortedTxs) :
                          IF sortedTxs[k] = i
                          THEN [r.transactions[k] EXCEPT
                                   !.type = "", !.realized_pnl_usd = Undefined]
                               = [result.transactions[k] EXCEPT
                                     !.type = "", !.realized_pnl_usd = Undefined]
                          ELSE r.transactions[k] = result.transactions[k]

\* a returned run whose only disposal is a transfer_out that drew from a lot
\* and realized a gain
C22_Witness ==
    /\ pc = "Done"
    /\ LastWasDisposal
    /\ \A i \in 1..Len(given) : given[i].type # "sell"
    /\ Gt(TotalQuantity(lastDisposal.lotsBefore), Zero)
    /\ Len(result.by_token) = 1
    /\ Gt(result.by_token[1].realized_pnl_usd, Zero)

MatchesLots(pnl, lots) ==
    /\ pnl.quantity_held = TotalQuantity(lots)
    /\ pnl.average_buy_price_usd =
           IF pnl.quantity_held = Zero THEN Zero
           ELSE Div(TotalCost(lots), TotalQuantity(lots))

\* C24: after every replayed transaction, and in the by_token entries of the
\* result, the figures of every token match the lots of its key.
C24_HeldMatchesLots ==
    /\ \A i \in 1..Len(tokenPnL) :
          MatchesLots(tokenPnL[i].val, PositionsOf(positions, tokenPnL[i].key))
    /\ pc = "Done" =>
          /\ Len(result.by_token) = Len(tokenPnL)
          /\ \A i \in 1..Len(result.by_token) :
                MatchesLots(result.by_token[i], PositionsOf(positions, tokenPnL[i].key))

\* after a disposal the key holds two lots of different quantity and cost
C24_Witness ==
    /\ LastWasDisposal
    /\ LET lots == PositionsOf(positions, lastDisposal.key)
       IN  /\ Len(lots) = 2
           /\ lots[1].quantity # lots[2].quantity
           /\ lots[1].price_usd # lots[2].price_usd
           /\ lots # lastDisposal.lotsBefore

\* C25: in every by_token entry current_price_usd is the price map's value
\* for the symbol, or 0 when the symbol is absent; unrealized_pnl_usd is
\* quantity_held x (current_price_usd - average_buy_price_usd) when
\* quantity_held > 0 and 0 otherwise; total_pnl_usd is realized + unrealized.
C25_UnrealizedPerToken ==
    pc = "Done" =>
        \A i \in 1..Len(result.by_token) :
            LET t == result.by_token[i]
            IN  /\ t.current_price_usd =
                       IF t.token_symbol \in DOMAIN currentPrices
                       THEN currentPrices[t.token_symbol] ELSE Zero
                /\ t.unrealized_pnl_usd =
                       IF Gt(t.quantity_held, Zero)
                       THEN Mul(t.quantity_held,
                                Sub(t.current_price_usd, t.average_buy_price_usd))
                       ELSE Zero
                /\ t.total_pnl_usd = Add(t.realized_pnl_usd, t.unrealized_pnl_usd)

\* a token held at a loss against the price map, with a realized gain
C25_Witness ==
    /\ pc = "Done"
    /\ DOMAIN currentPrices # {}
    /\ \E i \in 1..Len(result.by_token) :
          /\ Gt(result.by_token[i].quantity_held, Zero)
          /\ Lt(result.by_token[i].unrealized_pnl_usd, Zero)
          /\ Gt(result.by_token[i].realized_pnl_usd, Zero)

\* the by_token entries of the result on the chain c
TokensOn(c) == LET On(t) == t.chain = c IN SelectSeq(result.by_token, On)

\* realized, unrealized and total of the by_chain entry ch are the sums over
\* the by_token entries of its chain
ChainSums(ch) ==
    LET t == TokensOn(ch.chain)
    IN  /\ ch.realized_pnl_usd =
               SumSeq([i \in 1..Len(t) |-> t[i].realized_pnl_usd], Zero)
        /\ ch.unrealized_pnl_usd =
               SumSeq([i \in 1..Len(t) |-> t[i].unrealized_pnl_usd], Zero)
        /\ ch.total_pnl_usd = SumSeq([i \in 1..Len(t) |-> t[i].total_pnl_usd], Zero)

\* C26 as claimed: the three P&L fields of every by_chain entry are the sums
\* over the by_token entries of the chain, and pnl_percentage is
\* total_pnl_usd / |total_pnl_usd - realized_pnl_usd|, or 0 when that
\* denominator is 0.
C26_ChainRatio ==
    pc = "Done" =>
        \A i \in 1..Len(result.by_chain) :
            LET ch == result.by_chain[i]
                denominator == Abs(Sub(ch.total_pnl_usd, ch.realized_pnl_usd))
            IN  /\ ChainSums(ch)
                /\ ch.pnl_percentage =
                       IF denominator = Zero THEN Zero
                       ELSE Div(ch.total_pnl_usd, denominator)

\* C26 as amended: the sums as claimed; pnl_percentage is
\* 100 x total_pnl_usd / |total_pnl_usd - realized_pnl_usd| when that
\* denominator is greater than 0, and 0 otherwise.
C26_ChainPercentage ==
    pc = "Done" =>
        /\ \A i \in 1..Len(result.by_chain) :
              LET ch == result.by_chain[i]
                  denominator == Abs(Sub(ch.total_pnl_usd, ch.realized_pnl_usd))
              IN  /\ ChainSums(ch)
                  /\ ch.pnl_percentage =
                         IF Gt(denominator, Zero)
                         THEN Mul(Num(100), Div(ch.total_pnl_usd, denominator))
                         ELSE Zero
        /\ \A i \in 1..Len(result.by_token) :
              \E j \in 1..Len(result.by_chain) :
                  result.by_chain[j].chain = result.by_token[i].chain
        /\ \A i, j \in 1..Len(result.by_chain) :
              result.by_chain[i].chain = result.by_chain[j].chain => i = j

\* two tokens of one chain: realized 1 + 2, unrealized 1 - 3, total 1, which
\* is 50 per cent of |1 - 3|
C26_Witness ==
    /\ pc = "Done"
    /\ Len(result.by_token) = 2
    /\ Len(result.by_chain) = 1
    /\ result.by_chain[1].realized_pnl_usd = Num(3)
    /\ result.by_chain[1].unrealized_pnl_usd = Num(-2)
    /\ result.by_chain[1].pnl_percentage = Num(50)

\* the places of the input list in ascending timestamp order, equal
\* timestamps in input order
TimeOrder ==
    LET Before(i) ==
            {j \in 1..Len(given) :
                \/ given[j].timestamp < given[i].timestamp
                \/ given[j].timestamp = given[i].timestamp /\ j < i}
    IN  [k \in 1..Len(given) |->
            CHOOSE i \in 1..Len(given) : Cardinality(Before(i)) = k - 1]

\* a transaction without its annotation
Unannotated(tx) == [tx EXCEPT !.realized_pnl_usd = Undefined]

\* C27: the k-th replay step replays the k-th input transaction in ascending
\* timestamp order, equal timestamps in input order (an acquisition's lot is
\* the one added, a disposal is the one computed), and the transactions
\* array of the result holds the input transactions in that order, each of
\* them once.
C27_ReplayedAndReturnedInTimeOrder ==
    /\ [][(pc = "Replaying" /\ idx' = idx + 1) =>
            LET tx == given[TimeOrder[idx']]
                key == getTokenKey(tx.chain, tx.token_symbol, tx.token_address)
                lots == PositionsOf(positions', key)
            IN  IF tx.type \in Acquisitions
                THEN /\ Len(lots) = Len(PositionsOf(positions, key)) + 1
                     /\ lots[Len(lots)].tx_hash = tx.tx_hash
                     /\ lots[Len(lots)].timestamp = tx.timestamp
                ELSE /\ lastDisposal'.ref = TimeOrder[idx']
                     /\ lastDisposal'.key = key]_vars
    /\ [](pc = "Done" =>
            /\ Len(result.transactions) = Len(given)
            /\ \A k \in 1..Len(given) :
                  Unannotated(result.transactions[k]) = Unannotated(given[TimeOrder[k]]))

\* a returned run of three transactions where the input is not in timestamp
\* order and two transactions share a timestamp
C27_Witness ==
    /\ pc = "Done"
    /\ Len(given) = 3
    /\ given[1].timestamp > given[3].timestamp
    /\ given[2].timestamp = given[3].timestamp
    /\ given[2] # given[3]
    /\ result.transactions[1].tx_hash = given[2].tx_hash
    /\ result.transactions[3].tx_hash = given[1].tx_hash

\* a and b name the same token: chain, symbol and address agree, letter case
\* aside
SameToken(a, b) ==
    /\ ToLowerCase(a.chain) = ToLowerCase(b.chain)
    /\ ToLowerCase(a.token_symbol) = ToLowerCase(b.token_symbol)
    /\ ToLowerCase(a.token_address) = ToLowerCase(b.token_address)

\* the lots held anywhere in pos that were acquired for another token than
\* tok, per key and in their order
LotsOfOthers(pos, tok) ==
    LET Other(lot) == ~SameToken(given[lot.tx_hash], tok)
    IN  [key \in {k \in DOMAIN pos : SelectSeq(pos[k], Other) # <<>>} |->
            SelectSeq(pos[key], Other)]

\* quantity held, average price and realized P&L of the tokens other than tok
FiguresOfOthers(tp, tok) ==
    LET Other(e) == ~SameToken(e.val, tok)
        others == SelectSeq(tp, Other)
    IN  [i \in 1..Len(others) |->
            [chain |-> others[i].val.chain,
             token_symbol |-> others[i].val.token_symbol,
             token_address |-> others[i].val.token_address,
             quantity_held |-> others[i].val.quantity_held,
             average_buy_price_usd |-> others[i].val.average_buy_price_usd,
             realized_pnl_usd |-> others[i].val.realized_pnl_usd]]

\* C28: the replay of a transaction leaves the lots, the quantity held, the
\* average price and the realized P&L of every other token key as they were,
\* and no array of lots ever holds lots of two tokens (same symbol on another
\* chain or at another address included).
C28_OtherKeysUntouched ==
    /\ [][(pc = "Replaying" /\ idx' = idx + 1) =>
            LET tx == given[sortedTxs[idx']]
            IN  /\ LotsOfOthers(positions', tx) = LotsOfOthers(positions, tx)
                /\ FiguresOfOthers(tokenPnL', tx) = FiguresOfOthers(tokenPnL, tx)]_vars
    /\ [](\A key \in DOMAIN positions :
            \A i, j \in 1..Len(positions[key]) :
                SameToken(given[positions[key][i].tx_hash],
                          given[positions[key][j].tx_hash]))
    /\ [](\A i, j \in 1..Len(tokenPnL) :
            SameToken(tokenPnL[i].val, tokenPnL[j].val) => i = j)

\* a disposal of ETH on polygon has just been replayed while lots of ETH on
\* ethereum are held
C28_Witness ==
    /\ LastWasDisposal
    /\ given[lastDisposal.ref].chain = "polygon"
    /\ given[lastDisposal.ref].token_symbol = "ETH"
    /\ Gt(TotalQuantity(lastDisposal.lotsBefore), Zero)
    /\ \E key \in DOMAIN positions :
          /\ positions[key] # <<>>
          /\ given[positions[key][1].tx_hash].chain = "ethereum"
          /\ given[positions[key][1].tx_hash].token_symbol = "ETH"

\* the input list without its i-th transaction
Without(txs, i) == [k \in 1..(Len(txs) - 1) |-> IF k < i THEN txs[k] ELSE txs[k + 1]]

\* the ledger and the transaction objects after the replay of the input
\* without its i-th transaction on a new instance of the same method
ReplayedWithout(i) ==
    LET txs == Without(given, i)
    IN  Replay(method, [positions |-> <<>>, tokenPnL |-> <<>>, transactions |-> txs,
                        lastDisposal |-> NoDisposal], SortTransactions(txs), 1)

\* quantity held and average price of the token tok in tp, 0 when tp has no
\* entry for it
HeldOf(tp, tok) ==
    IF \E e \in 1..Len(tp) : SameToken(tp[e].val, tok)
    THEN LET e == CHOOSE e \in 1..Len(tp) : SameToken(tp[e].val, tok)
         IN  [quantity_held |-> tp[e].val.quantity_held,
              average_buy_price_usd |-> tp[e].val.average_buy_price_usd]
    ELSE [quantity_held |-> Zero, average_buy_price_usd |-> Zero]

\* C29: under every method an acquisition of quantity 0 is a no-op: at the
\* end of the replay the quantity held and the average price of its key, and
\* the realized P&L computed for every later disposal on that key, are what
\* they are for the input without that acquisition.
C29_ZeroAcquisitionIsNoOp ==
    (pc = "Finalizing" \/ pc = "Done") =>
        \A i \in 1..Len(given) :
            (given[i].type \in Acquisitions /\ given[i].quantity = Zero) =>
                LET other == ReplayedWithout(i)
                IN  /\ HeldOf(tokenPnL, given[i]) = HeldOf(other.tokenPnL, given[i])
                    /\ \A j \in 1..Len(given) :
                          (/\ j # i
                           /\ given[j].type \in Disposals
                           /\ SameToken(given[j], given[i])
                           /\ PlaceOf(j) > PlaceOf(i)) =>
                              transactions[j].realized_pnl_usd =
                                  other.transactions[IF j < i THEN j ELSE j - 1].realized_pnl_usd

\* x.toFixed(2) of a finite x, as the number of hundredths the string shows
toFixed2(x) ==
    LET hundredths == ((2 * 100 * AbsInt(x.n)) + x.d) \div (2 * x.d)
    IN  SignInt(x.n) * hundredths

\* the call of the mock test: method fifo on the mock transactions and prices
MockRun ==
    /\ method = "fifo"
    /\ given = MockInput.transactions
    /\ currentPrices = MockInput.currentPrices
    /\ pc = "Done"

Precedes(i, j) ==
    \/ given[i].timestamp < given[j].timestamp
    \/ given[i].timestamp = given[j].timestamp /\ i < j

\* C35: a disposal finds and consumes only lots of acquisitions that precede
\* it (earlier timestamp, or same timestamp and earlier in the input); an
\* acquisition replayed later enters the ledger with its full quantity, on
\* top of what the key held, whatever was oversold before; and the realized
\* P&L computed for a disposal is never changed by a later transaction.
C35_NoBackfill ==
    /\ [](LastWasDisposal =>
            /\ \A i \in 1..Len(lastDisposal.lotsBefore) :
                  Precedes(lastDisposal.lotsBefore[i].tx_hash, lastDisposal.ref)
            /\ \A i \in 1..Len(lastDisposal.before) :
                  Ge(lastDisposal.before[i].quantity, lastDisposal.after[i].quantity))
    /\ [][(pc = "Replaying" /\ idx' = idx + 1
             /\ given[sortedTxs[idx']].type \in Acquisitions) =>
            LET tx == given[sortedTxs[idx']]
            IN  /\ HeldOf(tokenPnL', tx).quantity_held =
                       Add(HeldOf(tokenPnL, tx).quantity_held, tx.quantity)
                /\ \A key \in DOMAIN positions' :
                      \A i \in 1..Len(positions'[key]) :
                          positions'[key][i].tx_hash = tx.tx_hash =>
                              positions'[key][i].quantity = tx.quantity]_vars
    /\ [][\A j \in 1..Len(transactions) :
            transactions[j].realized_pnl_usd # Undefined =>
                transactions'[j].realized_pnl_usd = transactions[j].realized_pnl_usd]_vars

\* under fifo an acquisition has just been replayed on a key that was
\* oversold before: the key holds exactly the acquired quantity
C35_Witness ==
    /\ method = "fifo"
    /\ pc = "Replaying"
    /\ idx > 1
    /\ given[sortedTxs[idx]].type \in Acquisitions
    /\ lastDisposal.ref # 0
    /\ SameToken(given[lastDisposal.ref], given[sortedTxs[idx]])
    /\ Gt(TotalQuantity(lastDisposal.lotsBefore), Zero)
    /\ Gt(given[lastDisposal.ref].quantity, TotalQuantity(lastDisposal.lotsBefore))
    /\ HeldOf(tokenPnL, given[sortedTxs[idx]]).quantity_held = given[sortedTxs[idx]].quantity
    /\ Gt(given[sortedTxs[idx]].quantity, Zero)

\* ---- retryRequest ----

\* the waits a call of retryRequest has made when it has begun `n` waits
Backoff(n) == SubSeq(<<1000, 2000>>, 1, n)

\* how far a call of retryRequest has come
RetryProgress(r) ==
    2 * r.attempt + (IF r.status = "pending" THEN 0 ELSE 1)

\* C31: a call of retryRequest (of either fetcher) makes at most 3 attempts,
\* waits 1000 ms after the first failure and 2000 ms after the second, throws
\* only when the third attempt has failed, makes no attempt after it has
\* returned or thrown, and every step of it brings it nearer to its end
C31_RetryRequest ==
    /\ [](\A r \in DOMAIN requests :
            /\ requests[r].attempt \in 1..3
            /\ requests[r].status \in {"pending", "waiting", "returned", "thrown"}
            /\ requests[r].waits =
                   Backoff(IF requests[r].status = "waiting"
                           THEN requests[r].attempt ELSE requests[r].attempt - 1)
            /\ requests[r].status = "thrown" =>
                   requests[r].attempt = 3 /\ requests[r].waits = <<1000, 2000>>)
    /\ [][svcPc' = svcPc /\ requests' # requests =>
            /\ DOMAIN requests' = DOMAIN requests
            /\ \A r \in DOMAIN requests :
                  /\ requests[r].status \in {"returned", "thrown"} =>
                         requests'[r] = requests[r]
                  /\ RetryProgress(requests'[r]) >= RetryProgress(requests[r])
            /\ \E r \in DOMAIN requests :
                  RetryProgress(requests'[r]) > RetryProgress(requests[r])]_vars

\* a call of each fetcher has thrown after its third attempt
C31_Witness ==
    /\ svcPc = "AwaitPrices"
    /\ requests["current"].status = "thrown"
    /\ requests["current"].attempt = 3
    /\ Len(fetcherCalls) > 0

\* ---- one chain failing ----

\* C32: a run of calculatePnL that has ended has returned a result, whatever
\* happened to the fetch of any one of the requested chains
C32_FailingChainDoesNotStop ==
    svcPc \in {"Done", "Failed"} => "result" \in DOMAIN output

\* ---- the entrypoint's summary ----

\* C33: in every result the calculate_pnl entrypoint returns, filtered by
\* include_tokens or not, total_pnl_usd is current_value_usd less
\* initial_investment_usd
C33_HandlerKeepsTotal ==
    (svcPc = "Done" /\ output.via = "calculate_pnl") =>
        output.result.summary.total_pnl_usd =
            Sub(output.result.summary.current_value_usd,
                output.result.summary.initial_investment_usd)

\* ---- the transaction cache ----

\* the cache key of the wallet's transactions on chain c
TxKeyOf(c) == <<"tx", c, "0xwallet">>

\* C37: the transaction cache changes only when a fetch has returned a list
\* that is not empty, and then that list is stored under the chain's key; a
\* failed or empty fetch leaves it as it is, no cached list is empty, a list
\* that was fetched with the cache enabled is stored, and with the cache
\* enabled a cached chain is taken from the cache without a call of the
\* fetcher
C37_TransactionCache ==
    /\ [](\A k \in DOMAIN transactionCache : Len(transactionCache[k]) > 0)
    /\ [][/\ transactionCache' # transactionCache =>
                /\ svcPc = "AwaitChain"
                /\ request.useCache
                /\ \A r \in DOMAIN requests : requests[r].status = "returned"
                /\ Len(allTransactions') > Len(allTransactions)
                /\ DOMAIN transactionCache' = DOMAIN transactionCache \cup {TxKeyOf(ThisChain)}
                /\ allTransactions' = allTransactions \o transactionCache'[TxKeyOf(ThisChain)]
                /\ \A k \in DOMAIN transactionCache \ {TxKeyOf(ThisChain)} :
                      transactionCache'[k] = transactionCache[k]
          /\ (svcPc = "AwaitChain" /\ svcPc' = "FetchLoop" /\ request.useCache
                /\ Len(allTransactions') > Len(allTransactions)) =>
                /\ TxKeyOf(ThisChain) \in DOMAIN transactionCache'
                /\ allTransactions' = allTransactions \o transactionCache'[TxKeyOf(ThisChain)]
          /\ (svcPc = "AwaitChain" /\ svcPc' = "FetchLoop"
                /\ \/ \E r \in DOMAIN requests : requests[r].status = "thrown"
                   \/ allTransactions' = allTransactions) =>
                transactionCache' = transactionCache
          /\ (svcPc = "FetchLoop" /\ chainIdx < Len(request.chains) /\ request.useCache
                /\ TxKeyOf(ThisChain) \in DOMAIN transactionCache) =>
                /\ fetcherCalls' = fetcherCalls
                /\ requests' = requests
                /\ svcPc' = "FetchLoop"
                /\ chainIdx' = chainIdx + 1
                /\ allTransactions' = allTransactions \o transactionCache[TxKeyOf(ThisChain)]
       ]_vars

\* in a second run a chain has been taken from the cache, and the fetch of
\* another chain has given nothing
C37_Witness ==
    /\ Len(runs) = 1
    /\ request.useCache
    /\ request.chains = <<"polygon", "ethereum">>
    /\ svcPc = "FetchLoop"
    /\ chainIdx = 2
    /\ fetcherCalls = <<"polygon">>
    /\ DOMAIN transactionCache = {TxKeyOf("ethereum")}
    /\ allTransactions = transactionCache[TxKeyOf("ethereum")]

\* ---- current prices from the cache ----

\* the price the calculator reads from the map m for the symbol s
PriceUsed(m, s) == IF s \in DOMAIN m THEN OrZero(m[s]) ELSE Zero

\* C38: a symbol whose current price a run takes from the price cache gets
\* the price that the earlier run, which asked for the same symbol and fetched
\* it, had in its map
C38_HitSameAsMiss ==
    (Len(runs) = 1 /\ svcPc \in {"Calculate", "Done"} /\ lookups # Undefined) =>
        \A s \in lookups.hits :
            (s \in runs[1].symbols /\ s \notin runs[1].hits) =>
                PriceUsed(priceMap, s) = PriceUsed(runs[1].priceMap, s)

\* ---- what the fetcher produces ----

\* the explorer's record has a value
HasValue(raw) == raw.value.digits # 0

\* the transfers with a value that the explorer holds for chain c under the
\* request r
TransfersOf(c, r) ==
    IF upstream.explorer[c][r].status = "1"
    THEN SelectSeq(upstream.explorer[c][r].result, HasValue) ELSE <<>>

\* the kind of a transfer: the wallet is its sender, in any spelling, or not
KindOf(raw) ==
    IF raw.from \in {"0xwallet", "0xWallet", "0xWALLET"}
    THEN "transfer_out" ELSE "transfer_in"

\* the transactions of the returned object r that belong to the token t
TransfersIn(r, t, type) ==
    LET Mine(tx) == /\ tx.chain = t.chain
                    /\ tx.token_address = t.token_address
                    /\ tx.type = type
    IN  SelectSeq(r.transactions, Mine)

\* C39: the fetcher's transactions are the explorer's transfers that have a
\* value, in order, as transfer_out when the wallet is the sender and as
\* transfer_in otherwise; no transaction of a returned result carries
\* realized_pnl_usd; and yet a token that came in once and went out once has
\* the realized P&L of that disposal in its figure (none without a
\* disposal), and the summary's realized total is the sum over the tokens
C39_OnlyTransfers ==
    /\ [](\A i \in 1..Len(allTransactions) :
             /\ allTransactions[i].type \in {"transfer_in", "transfer_out"}
             /\ Gt(allTransactions[i].quantity, Zero))
    /\ []((svcPc = "Done") =>
             LET r == output.result
             IN  /\ \A i \in 1..Len(r.transactions) :
                       /\ r.transactions[i].realized_pnl_usd = Undefined
                       /\ r.transactions[i].type \in {"transfer_in", "transfer_out"}
                 /\ r.summary.total_realized_pnl_usd =
                        SumSeq([i \in 1..Len(r.by_token) |->
                                   r.by_token[i].realized_pnl_usd], Zero)
                 /\ \A i \in 1..Len(r.by_token) :
                       LET ins == TransfersIn(r, r.by_token[i], "transfer_in")
                           outs == TransfersIn(r, r.by_token[i], "transfer_out")
                       IN  /\ Len(outs) = 0 => r.by_token[i].realized_pnl_usd = Zero
                           /\ (/\ Len(ins) = 1 /\ Len(outs) = 1
                               /\ ins[1].timestamp < outs[1].timestamp
                               /\ Ge(ins[1].quantity, outs[1].quantity)) =>
                                  r.by_token[i].realized_pnl_usd =
                                      Sub(Mul(outs[1].quantity, outs[1].price_usd),
                                          Mul(outs[1].quantity, ins[1].price_usd)))
    /\ [][(/\ svcPc = "AwaitChain" /\ svcPc' = "FetchLoop"
           /\ \A r \in DOMAIN requests : requests[r].status = "returned") =>
             LET raws == TransfersOf(ThisChain, "txlist") \o TransfersOf(ThisChain, "tokentx")
                 made == SubSeq(allTransactions', Len(allTransactions) + 1,
                                Len(allTransactions'))
             IN  /\ Len(made) = Len(raws)
                 /\ \A i \in 1..Len(raws) :
                       /\ made[i].tx_hash = raws[i].hash
                       /\ made[i].type = KindOf(raws[i])
                       /\ made[i].chain = ThisChain]_vars

\* calculatePnL has returned transfers in and out, none with realized_pnl_usd,
\* and a realized total that is not zero; the explorer's zero-value call is
\* not among them
C39_Witness ==
    /\ svcPc = "Done"
    /\ output.via = "WalletService"
    /\ \E i \in 1..Len(output.result.transactions) :
          output.result.transactions[i].type = "transfer_out"
    /\ output.result.summary.total_realized_pnl_usd # Zero
    /\ \E i \in 1..Len(upstream.explorer["ethereum"].txlist.result) :
          /\ ~HasValue(upstream.explorer["ethereum"].txlist.result[i])
          /\ \A j \in 1..Len(output.result.transactions) :
                output.result.transactions[j].tx_hash
                    # upstream.explorer["ethereum"].txlist.result[i].hash

\* ---- the batches of enrichWithPrices ----

\* the key of the transaction tx in the local price map
PairOf(tx) == <<tx.token_symbol, tx.timestamp \div 86400000>>

\* C36: at most 5 lookups are in flight; lookups are issued only when none
\* is in flight, at most 5 at a time, the batches before the last being full;
\* no (symbol, day) pair is issued twice; and when enrichWithPrices ends every
\* pair without cached price has been issued and every transaction has a
\* price: 0, or the price that the cache or the API holds for its pair, and 0
\* when neither holds one
C36_Batches ==
    /\ [](svcPc \in {"Enrich", "AwaitBatch"} =>
             /\ Cardinality(lookups.inFlight) <= 5
             /\ \A i, j \in 1..Len(lookups.issued) :
                   i # j => lookups.issued[i] # lookups.issued[j])
    /\ [][(svcPc \in {"Enrich", "AwaitBatch"} /\ svcPc' \in {"Enrich", "AwaitBatch"}
           /\ lookups'.issued # lookups.issued) =>
             /\ lookups.inFlight = {}
             /\ Len(lookups.issued) % 5 = 0
             /\ Len(lookups'.issued) - Len(lookups.issued) \in 1..5
             /\ Cardinality(lookups'.inFlight) = Len(lookups'.issued) - Len(lookups.issued)
             /\ SubSeq(lookups'.issued, 1, Len(lookups.issued)) = lookups.issued]_vars
    /\ [][(svcPc = "Enrich" /\ svcPc' \notin {"Enrich", "AwaitBatch"}) =>
             /\ lookups.inFlight = {}
             /\ Len(allTransactions') = Len(allTransactions)
             /\ \A i \in 1..Len(allTransactions) :
                   LET tx == allTransactions'[i]
                       id == <<"ethereum", PairOf(tx)[2]>>
                       cacheKey == <<"price", "hist", "ETH", PairOf(tx)[2]>>
                       cached == request.useCache /\ cacheKey \in DOMAIN priceCache
                       wasIssued == \E n \in 1..Len(lookups.issued) :
                                       lookups.issued[n] = PairOf(tx)
                   IN  /\ [tx EXCEPT !.price_usd = Zero] = allTransactions[i]
                       /\ ~IsNaN(tx.price_usd) /\ Ge(tx.price_usd, Zero)
                       /\ cached \/ wasIssued
                       /\ tx.price_usd # Zero =>
                             \/ cached /\ tx.price_usd = priceCache[cacheKey]
                             \/ /\ id \in DOMAIN upstream.historical
                                /\ tx.price_usd = upstream.historical[id]]_vars

\* a second batch is in flight after a full first one
C36_Witness ==
    /\ svcPc = "AwaitBatch"
    /\ Len(lookups.issued) = 7
    /\ Cardinality(lookups.inFlight) = 2
    /\ lookups.pauses = 1

====
